---- MODULE Spec2Model ----
(***************************************************************************)
(* Batch orchestration and response pipeline of humble-clay.               *)
(*                                                                         *)
(* Python values are tagged records: [t |-> "none"], [t |-> "str", s],     *)
(* [t |-> "dict", d] (d a function from key strings to values),            *)
(* [t |-> "list", l], [t |-> "model", d] (a pydantic instance, the one     *)
(* kind of value with a model_dump method) and [t |-> "object"] (any other *)
(* Python object).  A request-side mapping (response_format, json_schema,  *)
(* schema, properties) is a TLA+ record whose fields are its keys; the     *)
(* empty mapping is <<>>.                                                  *)
(*                                                                         *)
(* A field path is [t |-> "str", atoms], atoms a sequence of pieces, each   *)
(* either the separator "." or a dot-free piece of text; the Python string *)
(* is their concatenation.                                                 *)
(*                                                                         *)
(* A call that may raise returns [raised |-> FALSE, val] or                *)
(* [raised |-> TRUE, cls, msg].                                            *)
(*                                                                         *)
(* Spec is a run of process_multiple_prompts; SpecFunctions calls one      *)
(* function of the pipeline, once, on arguments of its own.                *)
(***************************************************************************)
EXTENDS Integers, Sequences, FiniteSets, TLC

----------------------------------------------------------------------------
(* Python values and exceptions *)

NoneV == [t |-> "none"]
Str(s) == [t |-> "str", s |-> s]
Dict(d) == [t |-> "dict", d |-> d]
ListV(l) == [t |-> "list", l |-> l]
TupleV(l) == [t |-> "tuple", l |-> l]
ModelInstance(d) == [t |-> "model", d |-> d]
Path(atoms) == [t |-> "str", atoms |-> atoms]

Ok(v) == [raised |-> FALSE, val |-> v]
Raise(cls, msg) == [raised |-> TRUE, cls |-> cls, msg |-> msg]

\* issubclass(cls, ValueError): pydantic's ValidationError derives from it
IsValueError(cls) == cls \in {"ValueError", "ValidationError"}

\* isinstance(e, Exception): asyncio.CancelledError and the like are not
IsException(cls) == cls # "CancelledError"

\* type(v).__name__
TypeName(v) ==
    CASE v.t = "none" -> "NoneType"
      [] v.t = "str" -> "str"
      [] v.t = "dict" -> "dict"
      [] v.t = "list" -> "list"
      [] v.t = "model" -> "DynamicSchema"
      [] v.t \in {"int", "float", "bool"} -> v.t
      [] OTHER -> "object"

\* bool(s) of a path: None and "" are falsy
Truthy(path) == path # NoneV /\ path.atoms # <<>>

RECURSIVE Concat(_)
\* the Python string a sequence of atoms stands for
Concat(atoms) ==
    IF atoms = <<>> THEN "" ELSE Head(atoms) \o Concat(Tail(atoms))

RECURSIVE SplitFrom(_, _)
\* str.split("."), reading atoms left to right with the current part in cur
SplitFrom(atoms, cur) ==
    IF atoms = <<>> THEN <<cur>>
    ELSE IF Head(atoms) = "." THEN <<cur>> \o SplitFrom(Tail(atoms), "")
    ELSE SplitFrom(Tail(atoms), cur \o Head(atoms))

Split(path) == SplitFrom(path.atoms, "")

RECURSIVE Join(_)
\* ".".join(parts)
Join(parts) ==
    IF Len(parts) = 0 THEN ""
    ELSE IF Len(parts) = 1 THEN parts[1]
    ELSE parts[1] \o "." \o Join(Tail(parts))

HasDot(path) == \E k \in DOMAIN path.atoms : path.atoms[k] = "."

----------------------------------------------------------------------------
(* api/field_extraction.py *)

RECURSIVE Walk_whole_path(_, _, _)
\* the loop naming the whole path in its error, not parts[: i + 1]
Walk_whole_path(parts, i, cur) ==
    IF i > Len(parts) THEN Ok(cur)
    ELSE IF cur.t = "dict" /\ parts[i] \in DOMAIN cur.d
         THEN Walk_whole_path(parts, i + 1, cur.d[parts[i]])
         ELSE Raise("ValueError", "Field not found: " \o Join(parts))

RECURSIVE Walk_truthy_only(_, _, _)
\* the loop with the test `current.get(part)` for `part in current`: a key
\* whose value is None, False or 0 counts as missing
Walk_truthy_only(parts, i, cur) ==
    IF i > Len(parts) THEN Ok(cur)
    ELSE IF /\ cur.t = "dict"
            /\ parts[i] \in DOMAIN cur.d
            /\ cur.d[parts[i]] # NoneV
            /\ ~(cur.d[parts[i]].t \in {"int", "bool"}
                  /\ cur.d[parts[i]].v \in {0, FALSE})
         THEN Walk_truthy_only(parts, i + 1, cur.d[parts[i]])
         ELSE Raise("ValueError",
                    "Field not found: " \o Join(SubSeq(parts, 1, i)))

RECURSIVE Walk(_, _, _)
\* the loop over parts of extract_field, at part i with current value cur
Walk(parts, i, cur) ==
    IF i > Len(parts) THEN Ok(cur)
    ELSE IF cur.t = "dict" /\ parts[i] \in DOMAIN cur.d
         THEN Walk(parts, i + 1, cur.d[parts[i]])
         ELSE Raise("ValueError",
                    "Field not found: " \o Join(SubSeq(parts, 1, i)))

\* line 27 testing only `not field_path`, not the parts of the path
extract_field_unchecked_parts(data, field_path) ==
    IF data.t \notin {"dict", "list"} /\ Truthy(field_path)
    THEN Raise("ValueError",
               "Cannot extract fields from non-structured data type: "
                   \o "<class '" \o TypeName(data) \o "'>")
    ELSE IF ~Truthy(field_path)
    THEN Raise("ValueError", "Invalid field path format")
    ELSE IF ~HasDot(field_path)
    THEN IF data.t = "dict" /\ Concat(field_path.atoms) \in DOMAIN data.d
         THEN Ok(data.d[Concat(field_path.atoms)])
         ELSE Raise("ValueError", "Field not found: " \o Concat(field_path.atoms))
    ELSE Walk(Split(field_path), 1, data)

extract_field(data, field_path) ==
    IF data.t \notin {"dict", "list"} /\ Truthy(field_path)
    THEN Raise("ValueError",
               "Cannot extract fields from non-structured data type: "
                   \o "<class '" \o TypeName(data) \o "'>")
    ELSE IF ~Truthy(field_path) \/ \E k \in DOMAIN Split(field_path) :
                                        Split(field_path)[k] = ""
    THEN Raise("ValueError", "Invalid field path format")
    ELSE IF ~HasDot(field_path)
    THEN IF data.t = "dict" /\ Concat(field_path.atoms) \in DOMAIN data.d
         THEN Ok(data.d[Concat(field_path.atoms)])
         ELSE Raise("ValueError", "Field not found: " \o Concat(field_path.atoms))
    ELSE Walk(Split(field_path), 1, data)

\* lines 33 and 43 taking the value out of the mapping with pop: the key
\* that the path starts with is gone from data after the call
extract_field_arguments_popped(data, field_path) ==
    [data |->
        IF /\ Truthy(field_path)
           /\ data.t = "dict"
           /\ \A k \in DOMAIN Split(field_path) : Split(field_path)[k] # ""
           /\ Split(field_path)[1] \in DOMAIN data.d
        THEN Dict([key \in DOMAIN data.d \ {Split(field_path)[1]} |->
                      data.d[key]])
        ELSE data,
     field_path |-> field_path]

\* the objects passed to extract_field, as the call leaves them: lines 21-48
\* assign only to the locals parts, current, i, part and full_path; split,
\* join and the slice of line 45 build new objects, and data is only read
\* with isinstance, in and []
extract_field_arguments(data, field_path) ==
    [data |-> data, field_path |-> field_path]

\* the objects passed to validate_field_extraction_request, as the call
\* leaves them: lines 64-70 only test has_schema and the type of data
validate_field_extraction_request_arguments(data, field_path, has_schema) ==
    [data |-> data, field_path |-> field_path, has_schema |-> has_schema]

validate_field_extraction_request(data, field_path, has_schema) ==
    IF ~has_schema
    THEN Raise("ValueError", "Field extraction requires a schema")
    ELSE IF data.t \notin {"dict", "list"}
    THEN Raise("ValueError",
               "Cannot extract fields from non-structured data: "
                   \o TypeName(data))
    ELSE Ok(NoneV)

----------------------------------------------------------------------------
(* api/models.py *)

\* prompt: str = Field(..., min_length=0)
PromptMinLength == 0

\* PromptRequest(prompt=...) validates: a text of at least min_length
\* characters, the empty text having none and any other at least one
PromptRequestAccepts(prompt) ==
    /\ prompt.t = "str"
    /\ PromptMinLength <= (IF prompt.s = "" THEN 0 ELSE 1)

\* the types PromptResponse.response admits
JsonTypes == {"none", "str", "int", "float", "bool", "dict", "list"}

\* the response field annotated Any: every value is taken as it is
PromptResponse_unvalidated(status, response, error) ==
    Ok([status |-> status, response |-> response, error |-> error])

\* PromptResponse(status=..., response=..., error=...): pydantic validates
\* the response field against its union, taking a tuple for the List[Any]
\* member as the list of its items, and raises ValidationError for a value
\* no member takes
PromptResponse(status, response, error) ==
    IF response.t \in JsonTypes
    THEN Ok([status |-> status, response |-> response, error |-> error])
    ELSE IF response.t = "tuple"
    THEN Ok([status |-> status, response |-> ListV(response.l),
             error |-> error])
    ELSE Raise("ValidationError", "validation error for PromptResponse")

----------------------------------------------------------------------------
(* api/response/handlers.py *)

\* the model instance kept as it is, not dumped
format_response_data_undumped(response_data) == response_data

format_response_data(response_data) ==
    IF response_data.t = "model" THEN Dict(response_data.d)
    ELSE response_data

\* the extraction attempted before the request is validated
extract_requested_field_extract_first(response_dict, extract_field_path, has_schema) ==
    IF ~Truthy(extract_field_path) THEN Ok(response_dict)
    ELSE LET x == extract_field(response_dict, extract_field_path)
         IN IF x.raised THEN x
            ELSE LET v == validate_field_extraction_request(
                              response_dict, extract_field_path, has_schema)
                 IN IF v.raised THEN v ELSE x

extract_requested_field(response_dict, extract_field_path, has_schema) ==
    IF ~Truthy(extract_field_path) THEN Ok(response_dict)
    ELSE LET v == validate_field_extraction_request(
                      response_dict, extract_field_path, has_schema)
         IN IF v.raised THEN v
            ELSE extract_field(response_dict, extract_field_path)

\* the error Outcome built without its status="error" argument
extraction_error_response_default_status(msg) ==
    PromptResponse("success", NoneV, Str(msg))

\* line 96: PromptResponse(status="error", error=str(e))
extraction_error_response(msg) == PromptResponse("error", NoneV, Str(msg))

\* lines 87-92 without the try ... except ValueError around them
prepare_prompt_response_uncaught(response_data, extract_field_path, has_schema) ==
    LET formatted == format_response_data(response_data)
        wrapped == IF formatted.t # "dict" /\ Truthy(extract_field_path)
                   THEN Dict([result |-> formatted])
                   ELSE formatted
    IN IF formatted.t # "dict" /\ ~Truthy(extract_field_path)
       THEN PromptResponse("success", formatted, NoneV)
       ELSE IF Truthy(extract_field_path)
       THEN LET x == extract_requested_field(
                         wrapped, extract_field_path, has_schema)
            IN IF x.raised THEN x
               ELSE PromptResponse("success", x.val, NoneV)
       ELSE PromptResponse("success", wrapped, NoneV)

\* lines 79, 83 and 87 testing `extract_field_path is not None`
prepare_prompt_response_path_not_none(response_data, extract_field_path, has_schema) ==
    LET formatted == format_response_data(response_data)
        wrapped == IF formatted.t # "dict" /\ extract_field_path # NoneV
                   THEN Dict([result |-> formatted])
                   ELSE formatted
    IN IF formatted.t # "dict" /\ extract_field_path = NoneV
       THEN PromptResponse("success", formatted, NoneV)
       ELSE IF extract_field_path # NoneV
       THEN LET x == extract_requested_field(
                         wrapped, extract_field_path, has_schema)
                r == IF x.raised THEN x
                     ELSE PromptResponse("success", x.val, NoneV)
            IN IF r.raised /\ IsValueError(r.cls)
               THEN extraction_error_response(r.msg)
               ELSE r
       ELSE PromptResponse("success", wrapped, NoneV)

\* lines 75-99
prepare_prompt_response(response_data, extract_field_path, has_schema) ==
    LET formatted == format_response_data(response_data)
        wrapped == IF formatted.t # "dict" /\ Truthy(extract_field_path)
                   THEN Dict([result |-> formatted])
                   ELSE formatted
    IN IF formatted.t # "dict" /\ ~Truthy(extract_field_path)
       THEN PromptResponse("success", formatted, NoneV)
       ELSE IF Truthy(extract_field_path)
       THEN LET x == extract_requested_field(
                         wrapped, extract_field_path, has_schema)
                r == IF x.raised THEN x
                     ELSE PromptResponse("success", x.val, NoneV)
            IN IF r.raised /\ IsValueError(r.cls)
               THEN extraction_error_response(r.msg)
               ELSE r
       ELSE PromptResponse("success", wrapped, NoneV)

----------------------------------------------------------------------------
(* api/schema/dynamic.py *)

\* a request-side value that is a mapping (a dict), not a tagged scalar
IsMapping(x) == "t" \notin DOMAIN x

\* d.get(key, default)
Get(d, key, default) == IF key \in DOMAIN d THEN d[key] ELSE default

\* the branch of "number" building an int field
FieldType_number_as_int(field_schema) ==
    LET field_type == Get(field_schema, "type", "")
    IN CASE field_type = "string" ->
                IF "enum" \in DOMAIN field_schema
                THEN [kind |-> "Literal", values |-> field_schema.enum,
                      required |-> TRUE]
                ELSE [kind |-> "str", required |-> TRUE]
         [] field_type = "integer" -> [kind |-> "int", required |-> TRUE]
         [] field_type = "number" -> [kind |-> "int", required |-> TRUE]
         [] field_type = "boolean" -> [kind |-> "bool", required |-> TRUE]
         [] field_type = "array" -> [kind |-> "List[Any]", required |-> TRUE]
         [] field_type = "object" ->
                [kind |-> "Dict[str, Any]", required |-> TRUE]
         [] OTHER -> [kind |-> "Any", required |-> TRUE]

\* the branch of "string" without its test for an enum
FieldType_enum_ignored(field_schema) ==
    LET field_type == Get(field_schema, "type", "")
    IN CASE field_type = "string" -> [kind |-> "str", required |-> TRUE]
         [] field_type = "integer" -> [kind |-> "int", required |-> TRUE]
         [] field_type = "number" -> [kind |-> "float", required |-> TRUE]
         [] field_type = "boolean" -> [kind |-> "bool", required |-> TRUE]
         [] field_type = "array" -> [kind |-> "List[Any]", required |-> TRUE]
         [] field_type = "object" ->
                [kind |-> "Dict[str, Any]", required |-> TRUE]
         [] OTHER -> [kind |-> "Any", required |-> TRUE]

\* the (type, Field(..., description=...)) pair built for one property; the
\* ellipsis makes the field required
FieldType(field_schema) ==
    LET field_type == Get(field_schema, "type", "")
    IN CASE field_type = "string" ->
                IF "enum" \in DOMAIN field_schema
                THEN [kind |-> "Literal", values |-> field_schema.enum,
                      required |-> TRUE]
                ELSE [kind |-> "str", required |-> TRUE]
         [] field_type = "integer" -> [kind |-> "int", required |-> TRUE]
         [] field_type = "number" -> [kind |-> "float", required |-> TRUE]
         [] field_type = "boolean" -> [kind |-> "bool", required |-> TRUE]
         [] field_type = "array" -> [kind |-> "List[Any]", required |-> TRUE]
         [] field_type = "object" ->
                [kind |-> "Dict[str, Any]", required |-> TRUE]
         [] OTHER -> [kind |-> "Any", required |-> TRUE]

\* properties read as schema_obj["properties"], not with .get
create_dynamic_model_from_schema_strict(schema_name, schema_obj) ==
    IF "properties" \notin DOMAIN schema_obj
    THEN Raise("KeyError", "'properties'")
    ELSE LET properties == schema_obj.properties
         IN IF ~IsMapping(properties)
            THEN Raise("AttributeError",
                       "'str' object has no attribute 'items'")
            ELSE IF \E f \in DOMAIN properties : ~IsMapping(properties[f])
            THEN Raise("AttributeError", "'str' object has no attribute 'get'")
            ELSE Ok([name |-> schema_name,
                     model_fields |-> [f \in DOMAIN properties |->
                                           FieldType(properties[f])]])

\* lines 24-82: properties.items() and field_schema.get() raise on a value
\* that is no dict
create_dynamic_model_from_schema(schema_name, schema_obj) ==
    LET properties == Get(schema_obj, "properties", <<>>)
    IN IF ~IsMapping(properties)
       THEN Raise("AttributeError", "'str' object has no attribute 'items'")
       ELSE IF \E f \in DOMAIN properties : ~IsMapping(properties[f])
       THEN Raise("AttributeError", "'str' object has no attribute 'get'")
       ELSE Ok([name |-> schema_name,
                model_fields |-> [f \in DOMAIN properties |->
                                      FieldType(properties[f])]])

\* a field of the built model validating a value: a Literal field takes
\* its listed values only, a str field any text, an Any field anything, and
\* a field of another kind no text
field_accepts(field, value) ==
    CASE field.kind = "Literal" ->
             value.t = "str" /\ \E k \in DOMAIN field.values :
                                    field.values[k] = value.s
      [] field.kind = "str" -> value.t = "str"
      [] field.kind = "Any" -> TRUE
      [] OTHER -> value.t # "str"

\* response_model(**data) of a model made by create_model: every required
\* field must be given, and every given value accepted by its field
model_validate(response_model, data) ==
    IF \E f \in DOMAIN response_model.model_fields :
           response_model.model_fields[f].required /\ f \notin DOMAIN data
    THEN Raise("ValidationError", "Field required")
    ELSE IF \E f \in DOMAIN response_model.model_fields :
                ~field_accepts(response_model.model_fields[f], data[f])
    THEN Raise("ValidationError", "Input should be a valid value")
    ELSE Ok(ModelInstance([f \in DOMAIN response_model.model_fields |->
                              data[f]]))

----------------------------------------------------------------------------
(* api/llm/processor.py: the LLM caller, an external collaborator *)

\* the text the provider answers for the prompt at input position pos
ResponseText(pos) == "Response " \o ToString(pos)

\* a value of the declared type, as the provider fills a field
FieldValue(field, pos) ==
    IF field.kind = "Literal" /\ Len(field.values) > 0
    THEN Str(field.values[1])
    ELSE Str(ResponseText(pos))

\* process_with_llm returning: plain text without a response model, an
\* instance of the model with one
LLMReturn(pos, response_model) ==
    IF response_model = NoneV THEN Ok(Str(ResponseText(pos)))
    ELSE Ok(ModelInstance([f \in DOMAIN response_model.model_fields |->
                              FieldValue(response_model.model_fields[f], pos)]))

\* the ways a call fails: in the provider call ("raise"), by its timeout,
\* or before it for want of an API key
LLMFailures == {"raise", "timeout", "no_api_key"}

\* process_with_llm raising: every failure is re-raised as Exception(msg),
\* msg telling the kind of failure
LLMRaise(behaviour, pos) ==
    CASE behaviour = "no_api_key" ->
             Raise("Exception", "OpenRouter API key not configured")
      [] behaviour = "timeout" ->
             Raise("Exception", "LLM call timed out: " \o ToString(pos))
      [] OTHER -> Raise("Exception", "Unexpected error: " \o ToString(pos))

process_with_llm(behaviour, pos, response_model) ==
    IF behaviour \in LLMFailures THEN LLMRaise(behaviour, pos)
    ELSE LLMReturn(pos, response_model)

----------------------------------------------------------------------------
(* api/batch/processor.py: prepare_prompt_request *)

\* bool(d) of an optional mapping: None and {} are falsy
TruthyMapping(d) == DOMAIN d # {} /\ d # NoneV

\* the condition of lines 54-57 without its test of the type
prepare_prompt_request_any_type(prompt_request) ==
    LET rf == prompt_request.response_format
        has_schema == TruthyMapping(rf)
        json_schema == IF has_schema THEN Get(rf, "json_schema", <<>>) ELSE <<>>
        built == IF has_schema /\ TruthyMapping(json_schema)
                    /\ "schema" \in DOMAIN json_schema
                 THEN create_dynamic_model_from_schema(
                          Get(json_schema, "name", "DynamicSchema"),
                          json_schema.schema)
                 ELSE Ok(NoneV)
    IN IF built.raised THEN built
       ELSE Ok([prompt |-> prompt_request.prompt,
                response_model |-> built.val,
                has_schema |-> has_schema])

\* has_schema = True moved into the inner if of lines 58-65
prepare_prompt_request_schema_when_built(prompt_request) ==
    LET rf == prompt_request.response_format
        typed == TruthyMapping(rf) /\ Get(rf, "type", "") = "json_schema"
        json_schema == IF typed THEN Get(rf, "json_schema", <<>>) ELSE <<>>
        has_schema == /\ typed
                      /\ TruthyMapping(json_schema)
                      /\ "schema" \in DOMAIN json_schema
        built == IF has_schema
                 THEN create_dynamic_model_from_schema(
                          Get(json_schema, "name", "DynamicSchema"),
                          json_schema.schema)
                 ELSE Ok(NoneV)
    IN IF built.raised THEN built
       ELSE Ok([prompt |-> prompt_request.prompt,
                response_model |-> built.val,
                has_schema |-> has_schema])

\* lines 34-67
prepare_prompt_request(prompt_request) ==
    LET rf == prompt_request.response_format
        has_schema == TruthyMapping(rf) /\ Get(rf, "type", "") = "json_schema"
        json_schema == IF has_schema THEN Get(rf, "json_schema", <<>>) ELSE <<>>
        built == IF has_schema /\ TruthyMapping(json_schema)
                    /\ "schema" \in DOMAIN json_schema
                 THEN create_dynamic_model_from_schema(
                          Get(json_schema, "name", "DynamicSchema"),
                          json_schema.schema)
                 ELSE Ok(NoneV)
    IN IF built.raised THEN built
       ELSE Ok([prompt |-> prompt_request.prompt,
                response_model |-> built.val,
                has_schema |-> has_schema])

----------------------------------------------------------------------------
(* The requests and LLM behaviours a run is checked on *)

MaxPrompts == 3

\* {"type": "json_schema", "json_schema": {"name": ..., "schema": {...}}}
SchemaFormat(properties) ==
    [type |-> "json_schema",
     json_schema |-> [name |-> "Answer",
                      schema |-> [type |-> "object",
                                  properties |-> properties]]]

RequestKinds ==
    {"plain", "empty_prompt", "path_no_schema", "schema_path", "bad_schema",
     "bad_properties"}

\* the PromptRequest of each kind at input position pos
Request(kind, pos) ==
    [prompt |-> IF kind = "empty_prompt" THEN Str("")
                ELSE Str("Prompt " \o ToString(pos)),
     response_format |->
         CASE kind = "schema_path" ->
                  SchemaFormat([output |-> [type |-> "string"]])
           [] kind = "bad_schema" ->
                  SchemaFormat([output |-> Str("string")])
           [] kind = "bad_properties" -> SchemaFormat(Str("output"))
           [] OTHER -> NoneV,
     extract_field_path |->
         IF kind \in {"path_no_schema", "schema_path"} THEN Path(<<"output">>)
         ELSE NoneV]

BatchSizes == 1..(MaxPrompts + 1)

----------------------------------------------------------------------------
(* api/batch/processor.py: the state of a run *)

VARIABLES
    prompts,            \* request.prompts
    batch_size,         \* the batch_size argument
    llm_behaviour,      \* per input position: the LLM call returns or raises
    pc,                 \* where process_multiple_prompts stands
    offset,             \* i of the batch loop
    all_responses, completed, failed, first_result_time,
    prepared_requests,  \* process_batch, phase 1
    llm_tasks,          \* process_batch, phase 2: None or the call's state
    finish_order,       \* batch positions of the calls, as they finished
    overtaken,          \* some call of the run finished before an earlier one
    llm_calls,          \* per input position: process_with_llm invocations
    batches,            \* the <<offset, length>> of every batch sliced so far
    now,                \* time.time()
    prev_responses,     \* what the previous run on this request returned
    first_success_completion,   \* when the first call of the run finished
                                \* whose item ends in a success Outcome
    next_completion,    \* when the next call after that one finished
    error_events,       \* the calls of log_batch_item_error of the run, each
                        \* with the input position of its item
    fn,                 \* a function called on its own: its name, once called
    fn_args,            \* the arguments of that call
    fn_result           \* what the call returned or raised

vars == <<prompts, batch_size, llm_behaviour, pc, offset, all_responses,
          completed, failed, first_result_time, prepared_requests, llm_tasks,
          finish_order, overtaken, llm_calls, batches, now, prev_responses,
          first_success_completion, next_completion, error_events, fn,
          fn_args, fn_result>>

\* the variables of a function called on its own
fn_vars == <<fn, fn_args, fn_result>>

total_prompts == Len(prompts)

Min(a, b) == IF a < b THEN a ELSE b

\* the slice request.prompts[i:], without its upper bound
batch_unbounded == SubSeq(prompts, offset + 1, total_prompts)

\* the slice request.prompts[i : i + batch_size + 1], one request more
batch_one_more ==
    SubSeq(prompts, offset + 1, Min(offset + batch_size + 1, total_prompts))

\* the slice request.prompts[i : i + batch_size - 1], one request short
batch_one_short ==
    SubSeq(prompts, offset + 1, Min(offset + batch_size, total_prompts) - 1)

\* request.prompts[i : i + batch_size]
batch == SubSeq(prompts, offset + 1, Min(offset + batch_size, total_prompts))

\* lines 243-248 of process_multiple_prompts, for a call with window size w
StartOfRun(w) ==
    /\ batch_size' = w
    /\ pc' = "batch_loop"
    /\ offset' = 0
    /\ all_responses' = <<>>
    /\ completed' = 0
    /\ failed' = 0
    /\ first_result_time' = NoneV
    /\ prepared_requests' = <<>>
    /\ llm_tasks' = <<>>
    /\ finish_order' = <<>>
    /\ overtaken' = FALSE
    /\ llm_calls' = [p \in 1..Len(prompts) |-> 0]
    /\ batches' = <<>>
    /\ error_events' = <<>>
    /\ now' = 0
    /\ first_success_completion' = NoneV
    /\ next_completion' = NoneV

\* a run starts on one to MaxPrompts requests of any kinds, the empty prompt
\* being tried in the first request and the properties that are no dict in
\* the second; the LLM call of a request returns or, for plain requests, may
\* raise, the timeout being tried in the first
Init ==
    \E n \in 1..MaxPrompts :
    \E kinds \in [1..n -> RequestKinds] :
    \E beh \in [1..n -> {"return", "raise", "timeout"}] :
    \E w \in BatchSizes :
        /\ \A p \in 1..n : beh[p] # "return" => kinds[p] = "plain"
        /\ \A p \in 1..n : beh[p] = "timeout" => p = 1
        /\ \A p \in 1..n : kinds[p] = "empty_prompt" => p = 1
        /\ \A p \in 1..n : kinds[p] = "bad_properties" => p = 2
        /\ prompts = [p \in 1..n |-> Request(kinds[p], p)]
        /\ llm_behaviour = beh
        /\ prev_responses = <<>>
        /\ batch_size = w
        /\ pc = "batch_loop"
        /\ offset = 0
        /\ all_responses = <<>>
        /\ completed = 0
        /\ failed = 0
        /\ first_result_time = NoneV
        /\ prepared_requests = <<>>
        /\ llm_tasks = <<>>
        /\ finish_order = <<>>
        /\ overtaken = FALSE
        /\ llm_calls = [p \in 1..n |-> 0]
        /\ batches = <<>>
        /\ now = 0
        /\ first_success_completion = NoneV
        /\ next_completion = NoneV
        /\ error_events = <<>>
        /\ fn = "process_multiple_prompts"
        /\ fn_args = NoneV
        /\ fn_result = NoneV

----------------------------------------------------------------------------
(* process_batch *)

\* time.time()
Time(t) == [t |-> "float", v |-> t]

\* phase 1, lines 105-117: one tuple per request; a preparation that raises
\* leaves (i, prompt_request, None, None, False)
prepare_requests(b) ==
    [i \in 1..Len(b) |->
        LET r == prepare_prompt_request(b[i])
        IN IF r.raised
           THEN [idx |-> i, prompt_request |-> b[i], prompt |-> NoneV,
                 response_model |-> NoneV, has_schema |-> FALSE]
           ELSE [idx |-> i, prompt_request |-> b[i], prompt |-> r.val.prompt,
                 response_model |-> r.val.response_model,
                 has_schema |-> r.val.has_schema]]

\* phase 2 without the skip of lines 122-124: a call for every request
create_tasks_without_skip(prepared, off) ==
    [i \in 1..Len(prepared) |->
        [state |-> "created", pos |-> off + i,
         prompt |-> prepared[i].prompt,
         response_model |-> prepared[i].response_model,
         result |-> NoneV]]

\* phase 2 skipping every falsy prompt: `if not prompt` for `if prompt is None`
create_tasks_skip_falsy(prepared, off) ==
    [i \in 1..Len(prepared) |->
        IF prepared[i].prompt = NoneV \/ prepared[i].prompt = Str("")
        THEN NoneV
        ELSE [state |-> "created", pos |-> off + i,
              prompt |-> prepared[i].prompt,
              response_model |-> prepared[i].response_model,
              result |-> NoneV]]

\* phase 2, lines 120-128: None for a failed preparation, else the coroutine
\* of process_with_llm for the request at input position off + i
create_tasks(prepared, off) ==
    [i \in 1..Len(prepared) |->
        IF prepared[i].prompt = NoneV THEN NoneV
        ELSE [state |-> "created", pos |-> off + i,
              prompt |-> prepared[i].prompt,
              response_model |-> prepared[i].response_model,
              result |-> NoneV]]

\* the calls awaited one after the other: only the first is started
gather_schedule_first_only(tasks) ==
    [i \in 1..Len(tasks) |->
        IF /\ tasks[i] # NoneV
           /\ tasks[i].state = "created"
           /\ \A k \in 1..(i - 1) : tasks[k] = NoneV
        THEN [tasks[i] EXCEPT !.state = "pending"]
        ELSE tasks[i]]

\* asyncio.gather(*tasks): every awaitable passed is scheduled at the call
gather_schedule(tasks) ==
    [i \in 1..Len(tasks) |->
        IF tasks[i] # NoneV /\ tasks[i].state = "created"
        THEN [tasks[i] EXCEPT !.state = "pending"]
        ELSE tasks[i]]

\* the batch positions of the awaitables passed to gather, in list order
Dispatched(tasks) == SelectSeq([i \in 1..Len(tasks) |-> i],
                               LAMBDA i : tasks[i] # NoneV)

\* a gather that hands the results back in the order the calls finished
gather_results_as_completed(tasks, finished) ==
    [k \in 1..Len(Dispatched(tasks)) |-> tasks[finished[k]].result]

\* the value of the awaited gather(..., return_exceptions=True): the results
\* and the raised exceptions, in the order of the awaitables passed
gather_results(tasks, finished) ==
    [k \in 1..Len(Dispatched(tasks)) |-> tasks[Dispatched(tasks)[k]].result]

\* response_idx never advanced by the loop
response_idx_unadvanced(tasks, i) == 0

\* response_idx when the loop of lines 138-141 is at index i
response_idx(tasks, i) == Cardinality({k \in 1..(i - 1) : tasks[k] # NoneV})

\* the results attached by batch position, response_idx left out: a
\* position past the end of llm_responses is an IndexError
order_responses_by_position(prepared, tasks, llm_responses) ==
    [r \in 1..Len(prepared) |->
        IF tasks[r] = NoneV THEN NoneV
        ELSE IF r <= Len(llm_responses) THEN llm_responses[r]
        ELSE Raise("IndexError", "list index out of range")]

\* lines 136-141
order_responses(prepared, tasks, llm_responses) ==
    [r \in 1..Len(prepared) |->
        IF \E i \in 1..Len(prepared) : prepared[i].idx = r /\ tasks[i] # NoneV
        THEN LET i == CHOOSE i \in 1..Len(prepared) :
                          prepared[i].idx = r /\ tasks[i] # NoneV
             IN llm_responses[response_idx(tasks, i) + 1]
        ELSE NoneV]

\* only the except ValueError clause, without the except Exception after it
CaughtValueErrorOnly(cls) == IsValueError(cls)

\* the except clauses of lines 182-196 catch ValueError, then Exception
Caught(cls) == IsValueError(cls) \/ IsException(cls)

\* the error Outcome built with a fixed text in place of str(e)
item_error_response_generic(msg) ==
    PromptResponse("error", NoneV, Str("Failed to process request"))

\* the error Outcome built without its status="error" argument
item_error_response_default_status(msg) ==
    PromptResponse("success", NoneV, Str(msg))

\* lines 188 and 195: PromptResponse(status="error", error=str(e))
item_error_response(msg) == PromptResponse("error", NoneV, Str(msg))

\* line 154 raising the exception of the preparation again, message kept
try_item_original_message(item, task, ordered_responses) ==
    IF task = NoneV
    THEN Raise("ValueError", prepare_prompt_request(item.prompt_request).msg)
    ELSE LET response_data == ordered_responses[item.idx]
         IN IF response_data.raised /\ IsException(response_data.cls)
            THEN response_data
            ELSE prepare_prompt_response(
                     IF response_data.raised THEN [t |-> "object"]
                     ELSE response_data.val,
                     item.prompt_request.extract_field_path,
                     item.has_schema)

\* lines 152-167: the try body up to the Outcome
try_item(item, task, ordered_responses) ==
    IF task = NoneV THEN Raise("ValueError", "Failed to prepare request")
    ELSE LET response_data == ordered_responses[item.idx]
         IN IF response_data.raised /\ IsException(response_data.cls)
            THEN response_data
            ELSE prepare_prompt_response(
                     IF response_data.raised THEN [t |-> "object"]
                     ELSE response_data.val,
                     item.prompt_request.extract_field_path,
                     item.has_schema)

\* the loop giving up on the whole batch when one of its calls raised
process_response_all_or_nothing(item, task, ordered_responses) ==
    LET r == try_item(item, task, ordered_responses)
    IN IF \E k \in DOMAIN ordered_responses :
              ordered_responses[k] # NoneV /\ ordered_responses[k].raised
       THEN item_error_response("Batch failed")
       ELSE IF r.raised /\ Caught(r.cls) THEN item_error_response(r.msg)
       ELSE r

\* lines 182-196 for one item: the calls of log_batch_item_error, made in
\* the except clauses only, error_type "validation" under except ValueError
\* and the default "processing" under except Exception
log_batch_item_error_calls(item, task, ordered_responses) ==
    LET r == try_item(item, task, ordered_responses)
    IN IF r.raised /\ IsValueError(r.cls)
       THEN <<[item |-> item.idx, error_type |-> "validation"]>>
       ELSE IF r.raised /\ IsException(r.cls)
       THEN <<[item |-> item.idx, error_type |-> "processing"]>>
       ELSE <<>>

\* lines 149-196 for one item: its Outcome, or the exception that escapes
process_response(item, task, ordered_responses) ==
    LET r == try_item(item, task, ordered_responses)
    IN IF r.raised /\ Caught(r.cls) THEN item_error_response(r.msg) ELSE r

RECURSIVE Phase3_overwriting(_, _, _, _, _, _)
\* the loop with line 180 outside the guard of line 179: every success of
\* the batch stores its own time
Phase3_overwriting(k, prepared, tasks, ordered_responses, t, acc) ==
    IF k > Len(prepared) \/ acc.raised THEN acc
    ELSE LET r == process_response(prepared[k], tasks[k], ordered_responses)
         IN IF r.raised
            THEN [acc EXCEPT !.raised = TRUE]
            ELSE Phase3_overwriting(k + 1, prepared, tasks, ordered_responses, t,
                   IF r.val.status = "error"
                   THEN [acc EXCEPT
                           !.batch_responses = Append(@, r.val),
                           !.batch_failed = @ + 1]
                   ELSE [acc EXCEPT
                           !.batch_responses = Append(@, r.val),
                           !.batch_completed = @ + 1,
                           !.new_first_result_time = Time(t + k)])

RECURSIVE Phase3_errors_uncounted(_, _, _, _, _, _)
\* the loop without the batch_failed += 1 of lines 174, 189 and 196
Phase3_errors_uncounted(k, prepared, tasks, ordered_responses, t, acc) ==
    IF k > Len(prepared) \/ acc.raised THEN acc
    ELSE LET r == process_response(prepared[k], tasks[k], ordered_responses)
         IN IF r.raised
            THEN [acc EXCEPT !.raised = TRUE]
            ELSE Phase3_errors_uncounted(k + 1, prepared, tasks,
                   ordered_responses, t,
                   IF r.val.status = "error"
                   THEN [acc EXCEPT
                           !.batch_responses = Append(@, r.val)]
                   ELSE [acc EXCEPT
                           !.batch_responses = Append(@, r.val),
                           !.batch_completed = @ + 1,
                           !.new_first_result_time =
                               IF @ = NoneV
                                  /\ acc.completed + acc.batch_completed + 1 = 1
                               THEN Time(t + k) ELSE @])

RECURSIVE Phase3_first_item_only(_, _, _, _, _, _)
\* line 179 testing len(batch_responses) == 1 for completed +
\* batch_completed == 1: only the first item of a batch can set the time
Phase3_first_item_only(k, prepared, tasks, ordered_responses, t, acc) ==
    IF k > Len(prepared) \/ acc.raised THEN acc
    ELSE LET r == process_response(prepared[k], tasks[k], ordered_responses)
         IN IF r.raised
            THEN [acc EXCEPT !.raised = TRUE]
            ELSE Phase3_first_item_only(k + 1, prepared, tasks,
                   ordered_responses, t,
                   IF r.val.status = "error"
                   THEN [acc EXCEPT
                           !.batch_responses = Append(@, r.val),
                           !.batch_failed = @ + 1]
                   ELSE [acc EXCEPT
                           !.batch_responses = Append(@, r.val),
                           !.batch_completed = @ + 1,
                           !.new_first_result_time =
                               IF @ = NoneV
                                  /\ Len(acc.batch_responses) + 1 = 1
                               THEN Time(t + k) ELSE @])

RECURSIVE Phase3(_, _, _, _, _, _)
\* the loop of lines 149-196 from index k on, acc holding batch_responses,
\* batch_completed, batch_failed and new_first_result_time; gather returned
\* at time t and the item at index k reads the clock at t + k
Phase3(k, prepared, tasks, ordered_responses, t, acc) ==
    IF k > Len(prepared) \/ acc.raised THEN acc
    ELSE LET r == process_response(prepared[k], tasks[k], ordered_responses)
         IN IF r.raised
            THEN [acc EXCEPT !.raised = TRUE]
            ELSE Phase3(k + 1, prepared, tasks, ordered_responses, t,
                   IF r.val.status = "error"
                   THEN [acc EXCEPT
                           !.batch_responses = Append(@, r.val),
                           !.batch_failed = @ + 1,
                           !.error_events =
                               @ \o log_batch_item_error_calls(
                                        prepared[k], tasks[k],
                                        ordered_responses)]
                   ELSE [acc EXCEPT
                           !.batch_responses = Append(@, r.val),
                           !.batch_completed = @ + 1,
                           !.new_first_result_time =
                               IF @ = NoneV
                                  /\ acc.completed + acc.batch_completed + 1 = 1
                               THEN Time(t + k) ELSE @])

\* lines 131-215: what process_batch returns once gather has returned
process_batch_result(prepared, tasks, finished, done, first, t) ==
    Phase3(1, prepared, tasks,
           order_responses(prepared, tasks, gather_results(tasks, finished)),
           t,
           [batch_responses |-> <<>>, batch_completed |-> 0,
            batch_failed |-> 0, new_first_result_time |-> first,
            completed |-> done, raised |-> FALSE, error_events |-> <<>>])

----------------------------------------------------------------------------
(* api/routes/prompts.py *)

\* lines 51-78: the try body of the route
route_body(prompt_request, behaviour, pos) ==
    LET prep == prepare_prompt_request(prompt_request)
        response_data == process_with_llm(behaviour, pos,
                                          prep.val.response_model)
    IN IF prep.raised THEN prep
       ELSE IF response_data.raised THEN response_data
       ELSE prepare_prompt_response(response_data.val,
                                    prompt_request.extract_field_path,
                                    prep.val.has_schema)

\* lines 82 and 85: PromptResponse(status="error", error=str(e))
route_error_response(msg) == PromptResponse("error", NoneV, Str(msg))

process_single_prompt_route(prompt_request, behaviour, pos) ==
    LET r == route_body(prompt_request, behaviour, pos)
    IN IF r.raised /\ (IsValueError(r.cls) \/ IsException(r.cls))
       THEN route_error_response(r.msg)
       ELSE r

----------------------------------------------------------------------------
(* process_multiple_prompts *)

\* lines 251-254 and phase 1 of process_batch
PrepareBatch ==
    /\ pc = "batch_loop"
    /\ offset < total_prompts
    /\ prepared_requests' = prepare_requests(batch)
    /\ batches' = Append(batches, <<offset, Len(batch)>>)
    /\ pc' = "prepared"
    /\ now' = now + 1
    /\ UNCHANGED fn_vars
    /\ UNCHANGED error_events
    /\ UNCHANGED <<prompts, batch_size, llm_behaviour, offset, all_responses,
                   completed, failed, first_result_time, llm_tasks,
                   finish_order, overtaken, llm_calls, prev_responses,
                   first_success_completion, next_completion>>

\* phase 2 of process_batch and the call of gather
DispatchBatch ==
    /\ pc = "prepared"
    /\ LET tasks == create_tasks(prepared_requests, offset)
       IN /\ llm_tasks' = gather_schedule(tasks)
          /\ llm_calls' = [p \in DOMAIN llm_calls |->
                              llm_calls[p] + Cardinality(
                                  {i \in 1..Len(tasks) :
                                      tasks[i] # NoneV /\ tasks[i].pos = p})]
    /\ pc' = "gathering"
    /\ now' = now + 1
    /\ UNCHANGED fn_vars
    /\ UNCHANGED error_events
    /\ UNCHANGED <<prompts, batch_size, llm_behaviour, offset, all_responses,
                   completed, failed, first_result_time, prepared_requests,
                   finish_order, overtaken, batches, prev_responses,
                   first_success_completion, next_completion>>

\* the call's result makes its item a success: lines 156-176 on that result
ItemSucceeds(item, task, result) ==
    LET r == process_response(item, task,
                              [i \in 1..item.idx |-> result])
    IN ~r.raised /\ r.val.status = "success"

\* a call that raises cancels the calls of the batch still pending, each of
\* which then ends with CancelledError
LLMComplete_cancelling(j) ==
    /\ pc = "gathering"
    /\ llm_tasks[j] # NoneV
    /\ llm_tasks[j].state = "pending"
    /\ LET result == process_with_llm(llm_behaviour[llm_tasks[j].pos],
                                      llm_tasks[j].pos,
                                      llm_tasks[j].response_model)
       IN /\ first_success_completion' =
                 IF first_success_completion = NoneV
                    /\ ItemSucceeds(prepared_requests[j], llm_tasks[j], result)
                 THEN Time(now)
                 ELSE first_success_completion
          /\ llm_tasks' =
                 [i \in DOMAIN llm_tasks |->
                     IF i = j
                     THEN [llm_tasks[i] EXCEPT !.state = "done",
                                               !.result = result]
                     ELSE IF /\ result.raised
                             /\ llm_tasks[i] # NoneV
                             /\ llm_tasks[i].state = "pending"
                     THEN [llm_tasks[i] EXCEPT
                             !.state = "done",
                             !.result = Raise("CancelledError", "")]
                     ELSE llm_tasks[i]]
    /\ next_completion' =
           IF first_success_completion # NoneV /\ next_completion = NoneV
           THEN Time(now)
           ELSE next_completion
    /\ finish_order' = Append(finish_order, j)
    /\ overtaken' = (overtaken \/ \E k \in 1..(j - 1) :
                         llm_tasks[k] # NoneV /\ llm_tasks[k].state = "pending")
    /\ now' = now + 1
    /\ UNCHANGED fn_vars
    /\ UNCHANGED error_events
    /\ UNCHANGED <<prompts, batch_size, llm_behaviour, pc, offset,
                   all_responses, completed, failed, first_result_time,
                   prepared_requests, llm_calls, batches, prev_responses>>

\* the call counts itself as completed when it returns, as a done-callback
\* on the call would
LLMComplete_counting(j) ==
    /\ pc = "gathering"
    /\ llm_tasks[j] # NoneV
    /\ llm_tasks[j].state = "pending"
    /\ LET result == process_with_llm(llm_behaviour[llm_tasks[j].pos],
                                      llm_tasks[j].pos,
                                      llm_tasks[j].response_model)
       IN /\ first_success_completion' =
                 IF first_success_completion = NoneV
                    /\ ItemSucceeds(prepared_requests[j], llm_tasks[j], result)
                 THEN Time(now)
                 ELSE first_success_completion
          /\ llm_tasks' = [llm_tasks EXCEPT ![j].state = "done",
                                            ![j].result = result]
          /\ completed' = IF result.raised THEN completed ELSE completed + 1
    /\ next_completion' =
           IF first_success_completion # NoneV /\ next_completion = NoneV
           THEN Time(now)
           ELSE next_completion
    /\ finish_order' = Append(finish_order, j)
    /\ overtaken' = (overtaken \/ \E k \in 1..(j - 1) :
                         llm_tasks[k] # NoneV /\ llm_tasks[k].state = "pending")
    /\ now' = now + 1
    /\ UNCHANGED fn_vars
    /\ UNCHANGED error_events
    /\ UNCHANGED <<prompts, batch_size, llm_behaviour, pc, offset,
                   all_responses, failed, first_result_time,
                   prepared_requests, llm_calls, batches, prev_responses>>

\* one pending LLM call returns or raises
LLMComplete(j) ==
    /\ pc = "gathering"
    /\ llm_tasks[j] # NoneV
    /\ llm_tasks[j].state = "pending"
    /\ LET result == process_with_llm(llm_behaviour[llm_tasks[j].pos],
                                      llm_tasks[j].pos,
                                      llm_tasks[j].response_model)
       IN first_success_completion' =
              IF first_success_completion = NoneV
                 /\ ItemSucceeds(prepared_requests[j], llm_tasks[j], result)
              THEN Time(now)
              ELSE first_success_completion
    /\ next_completion' =
           IF first_success_completion # NoneV /\ next_completion = NoneV
           THEN Time(now)
           ELSE next_completion
    /\ llm_tasks' = [llm_tasks EXCEPT
                       ![j].state = "done",
                       ![j].result = process_with_llm(
                           llm_behaviour[llm_tasks[j].pos],
                           llm_tasks[j].pos, llm_tasks[j].response_model)]
    /\ finish_order' = Append(finish_order, j)
    /\ overtaken' = (overtaken \/ \E k \in 1..(j - 1) :
                         llm_tasks[k] # NoneV /\ llm_tasks[k].state = "pending")
    /\ now' = now + 1
    /\ UNCHANGED fn_vars
    /\ UNCHANGED error_events
    /\ UNCHANGED <<prompts, batch_size, llm_behaviour, pc, offset,
                   all_responses, completed, failed, first_result_time,
                   prepared_requests, llm_calls, batches, prev_responses>>

\* gather returns when every awaitable passed to it is done
GatherDone(tasks) ==
    \A i \in 1..Len(tasks) : tasks[i] # NoneV => tasks[i].state = "done"

\* a batch with a failed item is processed again before the loop goes on
ReconcileBatch_retrying ==
    /\ pc = "gathering"
    /\ GatherDone(llm_tasks)
    /\ \E res \in {process_batch_result(prepared_requests, llm_tasks,
                      finish_order, completed, first_result_time, now)} :
          /\ error_events' =
                 error_events \o
                 [e \in DOMAIN res.error_events |->
                     [res.error_events[e] EXCEPT !.item = offset + @]]
          /\ IF res.raised
             THEN /\ pc' = "raised"
                  /\ UNCHANGED <<offset, all_responses, completed, failed,
                                 first_result_time>>
             ELSE IF res.batch_failed > 0
             THEN /\ pc' = "batch_loop"
                  /\ UNCHANGED <<offset, all_responses, completed, failed,
                                 first_result_time>>
             ELSE /\ pc' = "batch_loop"
                  /\ offset' = offset + batch_size
                  /\ all_responses' = all_responses \o res.batch_responses
                  /\ completed' = completed + res.batch_completed
                  /\ failed' = failed + res.batch_failed
                  /\ first_result_time' =
                         IF first_result_time = NoneV
                            /\ res.new_first_result_time # NoneV
                         THEN res.new_first_result_time
                         ELSE first_result_time
    /\ prepared_requests' = <<>>
    /\ llm_tasks' = <<>>
    /\ finish_order' = <<>>
    /\ now' = now + Len(prepared_requests) + 1
    /\ UNCHANGED fn_vars
    /\ UNCHANGED <<prompts, batch_size, llm_behaviour, overtaken, llm_calls,
                   batches, prev_responses, first_success_completion,
                   next_completion>>

\* the rest of process_batch and lines 285-291 of the caller; the loop of
\* phase 3 reads the clock once per item
ReconcileBatch ==
    /\ pc = "gathering"
    /\ GatherDone(llm_tasks)
    /\ \E res \in {process_batch_result(prepared_requests, llm_tasks,
                      finish_order, completed, first_result_time, now)} :
          /\ error_events' =
                 error_events \o
                 [e \in DOMAIN res.error_events |->
                     [res.error_events[e] EXCEPT !.item = offset + @]]
          /\ IF res.raised
             THEN /\ pc' = "raised"
                  /\ UNCHANGED <<offset, all_responses, completed, failed,
                                 first_result_time>>
             ELSE /\ pc' = "batch_loop"
                  /\ offset' = offset + batch_size
                  /\ all_responses' = all_responses \o res.batch_responses
                  /\ completed' = completed + res.batch_completed
                  /\ failed' = failed + res.batch_failed
                  /\ first_result_time' =
                         IF first_result_time = NoneV
                            /\ res.new_first_result_time # NoneV
                         THEN res.new_first_result_time
                         ELSE first_result_time
    /\ prepared_requests' = <<>>
    /\ llm_tasks' = <<>>
    /\ finish_order' = <<>>
    /\ now' = now + Len(prepared_requests) + 1
    /\ UNCHANGED fn_vars
    /\ UNCHANGED <<prompts, batch_size, llm_behaviour, overtaken, llm_calls,
                   batches, prev_responses, first_success_completion,
                   next_completion>>

\* lines 293-304: the loop is over, the response is returned
Finish ==
    /\ pc = "batch_loop"
    /\ offset >= total_prompts
    /\ pc' = "done"
    /\ now' = now + 1
    /\ UNCHANGED fn_vars
    /\ UNCHANGED error_events
    /\ UNCHANGED <<prompts, batch_size, llm_behaviour, offset, all_responses,
                   completed, failed, first_result_time, prepared_requests,
                   llm_tasks, finish_order, overtaken, llm_calls, batches,
                   prev_responses, first_success_completion, next_completion>>

\* the caller submits the same request again, with another batch size
Rerun ==
    /\ pc = "done"
    /\ prev_responses = <<>>
    /\ \E w \in BatchSizes \ {batch_size} : StartOfRun(w)
    /\ prev_responses' = all_responses
    /\ UNCHANGED fn_vars
    /\ UNCHANGED <<prompts, llm_behaviour>>

Next ==
    \/ PrepareBatch
    \/ DispatchBatch
    \/ \E j \in 1..MaxPrompts + 1 : j \in DOMAIN llm_tasks /\ LLMComplete(j)
    \/ ReconcileBatch
    \/ Finish
    \/ Rerun

Spec == Init /\ [][Next]_vars

\* requests whose item succeeds or fails in its LLM call, fails in its
\* extraction, and fails in its preparation
FairKinds == {"plain", "path_no_schema", "bad_schema"}

\* a run starts on requests of these kinds
FairInit ==
    /\ Init
    /\ \A p \in DOMAIN prompts :
           \E kind \in FairKinds : prompts[p] = Request(kind, p)

\* the steps of one run
RunNext ==
    \/ PrepareBatch
    \/ DispatchBatch
    \/ \E j \in 1..MaxPrompts + 1 : j \in DOMAIN llm_tasks /\ LLMComplete(j)
    \/ ReconcileBatch
    \/ Finish

\* one run under the event loop: as long as the coroutine of
\* process_multiple_prompts can go on or an LLM call is pending, one of
\* them takes its step, so that every LLM call issued returns or raises
FairSpec == FairInit /\ [][RunNext]_vars /\ WF_vars(RunNext)

----------------------------------------------------------------------------
(* The functions of the pipeline, each called on its own *)

\* the response_format values a request is given
ResponseFormats ==
    {NoneV,
     <<>>,
     [type |-> "text"],
     [type |-> "json_object"],
     [type |-> "text",
      json_schema |-> [name |-> "Answer",
                       schema |-> [type |-> "object",
                                   properties |->
                                       [output |-> [type |-> "string"]]]]],
     [json_schema |-> [name |-> "Answer",
                       schema |-> [type |-> "object",
                                   properties |->
                                       [output |-> [type |-> "string"]]]]],
     [type |-> "json_schema"],
     [type |-> "json_schema", json_schema |-> <<>>],
     [type |-> "json_schema", json_schema |-> [name |-> "Answer"]],
     [type |-> "json_schema",
      json_schema |-> [name |-> "Answer", schema |-> [type |-> "object"]]],
     SchemaFormat([output |-> [type |-> "string"]]),
     SchemaFormat([output |-> [type |-> "string", enum |-> <<"yes", "no">>],
                   score |-> [type |-> "integer"]]),
     SchemaFormat([output |-> Str("string")])}

IntV(n) == [t |-> "int", v |-> n]
BoolV(b) == [t |-> "bool", v |-> b]

\* the raw outputs of the LLM caller (text, a model instance, or the mapping,
\* list or scalar a stand-in for it returns)
RawOutputs ==
    {Str("London"),
     NoneV,
     IntV(0),
     BoolV(FALSE),
     ModelInstance([output |-> Str("yes"), score |-> IntV(0)]),
     ModelInstance([user |-> Dict([address |-> Dict([city |-> Str("London")])])]),
     Dict([output |-> NoneV, result |-> BoolV(FALSE)]),
     Dict([user |-> Dict([address |-> Dict([city |-> Str("London")]),
                          tags |-> ListV(<<Str("a"), Str("b")>>),
                          age |-> IntV(0)]),
           output |-> Dict([x |-> NoneV])]),
     ListV(<<Dict([output |-> Str("yes")])>>),
     ListV(<<>>)}

\* the extract_field_path values: None, "", "output", "user.address.city",
\* "user..address", ".user", "user." and the like
FieldPaths ==
    {NoneV,
     Path(<<>>),
     Path(<<"output">>),
     Path(<<"result">>),
     Path(<<"missing">>),
     Path(<<"user">>),
     Path(<<"user", ".", "address">>),
     Path(<<"user", ".", "address", ".", "city">>),
     Path(<<"user", ".", "tags">>),
     Path(<<"user", ".", "age">>),
     Path(<<"user", ".", "missing">>),
     Path(<<"output", ".", "x">>),
     Path(<<"user", ".", "address", ".", "city", ".", "x">>),
     Path(<<".", "user">>),
     Path(<<"user", ".">>),
     Path(<<"user", ".", ".", "address">>),
     Path(<<".">>)}

\* the schemas of one property
PropertySchemas ==
    {[type |-> "string", enum |-> <<"active", "pending", "completed">>],
     [type |-> "string"],
     [type |-> "integer"],
     [type |-> "integer", enum |-> <<"1", "2">>],
     [type |-> "number"],
     [type |-> "boolean"],
     [type |-> "array"],
     [type |-> "object"],
     [type |-> "null"],
     [description |-> "untyped"]}

\* the schema objects: {"type": "object", "properties": {...}} with up to
\* two properties, and one without the "properties" entry
SchemaObjects ==
    {[type |-> "object"]} \cup
    {[type |-> "object", properties |-> properties] :
        properties \in UNION {[names -> PropertySchemas] :
                                 names \in SUBSET {"status", "score"}}}

\* the texts a field of an instance is given
FieldTexts ==
    {"active", "completed", "Active", "active now", "running", ""}

\* values of other kinds a call could hand back: an instance of some class,
\* a complex number, a tuple
OtherOutputs ==
    {[t |-> "object"], [t |-> "complex"], TupleV(<<Str("a"), Str("b")>>)}

\* no run is going on; one function is called, once, on arguments of its own
InitFunctions ==
    /\ prompts = <<>>
    /\ llm_behaviour = <<>>
    /\ prev_responses = <<>>
    /\ batch_size = 1
    /\ pc = "idle"
    /\ offset = 0
    /\ all_responses = <<>>
    /\ completed = 0
    /\ failed = 0
    /\ first_result_time = NoneV
    /\ prepared_requests = <<>>
    /\ llm_tasks = <<>>
    /\ finish_order = <<>>
    /\ overtaken = FALSE
    /\ llm_calls = <<>>
    /\ batches = <<>>
    /\ now = 0
    /\ first_success_completion = NoneV
    /\ next_completion = NoneV
    /\ error_events = <<>>
    /\ fn = "none"
    /\ fn_result = NoneV
    /\ \/ \E rf \in ResponseFormats : \E path \in {NoneV, Path(<<"output">>)} :
              fn_args = [prompt_request |->
                            [prompt |-> Str("Test prompt"),
                             response_format |-> rf,
                             extract_field_path |-> path]]
       \/ \E data \in RawOutputs : \E path \in FieldPaths :
          \E has_schema \in BOOLEAN :
              fn_args = [data |-> data, field_path |-> path,
                         has_schema |-> has_schema]
       \/ \E schema_obj \in SchemaObjects : \E text \in FieldTexts :
          \E given \in SUBSET {"status", "score"} :
              fn_args = [schema_name |-> "Answer", schema_obj |-> schema_obj,
                         instance |-> [f \in given |-> Str(text)]]
       \/ \E response_data \in RawOutputs \cup OtherOutputs :
          \E path \in {NoneV, Path(<<"result">>), Path(<<"output">>)} :
          \E has_schema \in BOOLEAN :
              fn_args = [response_data |-> response_data,
                         extract_field_path |-> path,
                         has_schema |-> has_schema]

\* the variables of a run, which no function called on its own touches
run_vars == <<prompts, batch_size, llm_behaviour, pc, offset, all_responses,
              completed, failed, first_result_time, prepared_requests,
              llm_tasks, finish_order, overtaken, llm_calls, batches, now,
              prev_responses, first_success_completion, next_completion,
              error_events>>

CallPreparePromptRequest ==
    /\ fn = "none"
    /\ "prompt_request" \in DOMAIN fn_args
    /\ fn' = "prepare_prompt_request"
    /\ fn_result' = prepare_prompt_request(fn_args.prompt_request)
    /\ UNCHANGED <<fn_args, run_vars>>

CallPreparePromptResponse ==
    /\ fn = "none"
    /\ "data" \in DOMAIN fn_args
    /\ fn' = "prepare_prompt_response"
    /\ fn_result' = prepare_prompt_response(fn_args.data, fn_args.field_path,
                                            fn_args.has_schema)
    /\ UNCHANGED <<fn_args, run_vars>>

CallExtractField ==
    /\ fn = "none"
    /\ "data" \in DOMAIN fn_args
    /\ fn_args.has_schema
    /\ fn' = "extract_field"
    /\ fn_result' = extract_field(fn_args.data, fn_args.field_path)
    /\ \E after \in {extract_field_arguments(fn_args.data,
                                              fn_args.field_path)} :
           fn_args' = [fn_args EXCEPT !.data = after.data,
                                      !.field_path = after.field_path]
    /\ UNCHANGED run_vars

CallValidateFieldExtractionRequest ==
    /\ fn = "none"
    /\ "data" \in DOMAIN fn_args
    /\ fn' = "validate_field_extraction_request"
    /\ fn_result' = validate_field_extraction_request(
                        fn_args.data, fn_args.field_path, fn_args.has_schema)
    /\ fn_args' = validate_field_extraction_request_arguments(
                       fn_args.data, fn_args.field_path, fn_args.has_schema)
    /\ UNCHANGED run_vars

CallCreateDynamicModelFromSchema ==
    /\ fn = "none"
    /\ "schema_obj" \in DOMAIN fn_args
    /\ fn_args.instance = <<>>
    /\ fn' = "create_dynamic_model_from_schema"
    /\ fn_result' = create_dynamic_model_from_schema(
                        fn_args.schema_name, fn_args.schema_obj)
    /\ UNCHANGED <<fn_args, run_vars>>

\* the model built from the schema, instantiated on the fields given
CallModelValidate ==
    /\ fn = "none"
    /\ "schema_obj" \in DOMAIN fn_args
    /\ fn' = "model_validate"
    /\ fn_result' = model_validate(
                        create_dynamic_model_from_schema(
                            fn_args.schema_name, fn_args.schema_obj).val,
                        fn_args.instance)
    /\ UNCHANGED <<fn_args, run_vars>>

\* process_batch on one prepared request whose LLM call returned
\* response_data: lines 131-215
CallProcessBatch ==
    /\ fn = "none"
    /\ "response_data" \in DOMAIN fn_args
    /\ fn' = "process_batch"
    /\ fn_result' =
           process_batch_result(
               <<[idx |-> 1,
                  prompt_request |->
                      [prompt |-> Str("Test prompt"),
                       response_format |-> NoneV,
                       extract_field_path |-> fn_args.extract_field_path],
                  prompt |-> Str("Test prompt"),
                  response_model |-> NoneV,
                  has_schema |-> fn_args.has_schema]>>,
               <<[state |-> "done", pos |-> 1,
                  prompt |-> Str("Test prompt"),
                  response_model |-> NoneV,
                  result |-> Ok(fn_args.response_data)]>>,
               <<1>>, 0, NoneV, 0)
    /\ UNCHANGED <<fn_args, run_vars>>

NextFunctions ==
    \/ CallProcessBatch
    \/ CallPreparePromptRequest
    \/ CallPreparePromptResponse
    \/ CallExtractField
    \/ CallValidateFieldExtractionRequest
    \/ CallCreateDynamicModelFromSchema
    \/ CallModelValidate

SpecFunctions == InitFunctions /\ [][NextFunctions]_vars

----------------------------------------------------------------------------
(* Two runs of process_multiple_prompts, side by side *)

\* the calls of a batch once gather has returned, each with its result
gathered(tasks, behaviours) ==
    [i \in 1..Len(tasks) |->
        IF tasks[i] = NoneV THEN NoneV
        ELSE [tasks[i] EXCEPT
                !.state = "done",
                !.result = process_with_llm(behaviours[tasks[i].pos],
                                            tasks[i].pos,
                                            tasks[i].response_model)]]

RECURSIVE process_multiple_prompts(_, _, _, _)
\* lines 251-304 from the batch at offset i on: the responses returned by a
\* run on the given requests, the LLM call of each behaving as given
process_multiple_prompts(request_prompts, behaviours, size, i) ==
    IF i >= Len(request_prompts) THEN <<>>
    ELSE LET b == SubSeq(request_prompts, i + 1,
                         Min(i + size, Len(request_prompts)))
             prepared == prepare_requests(b)
             tasks == gathered(create_tasks(prepared, i), behaviours)
             res == process_batch_result(prepared, tasks, <<>>, 0, NoneV, 0)
         IN res.batch_responses \o
            process_multiple_prompts(request_prompts, behaviours, size,
                                     i + size)

\* the longest request list of the two runs
MaxPairPrompts == 2

\* a request and its LLM call: success, failure of the call, failure of
\* the extraction, failure of the preparation
RunItems ==
    {<<"plain", "return">>, <<"plain", "raise">>,
     <<"path_no_schema", "return">>, <<"bad_schema", "return">>}

\* the arguments of a run: requests, the behaviour of their calls, batch size
RunInputs ==
    {[request_prompts |-> [p \in DOMAIN items |-> Request(items[p][1], p)],
      behaviours |-> [p \in DOMAIN items |-> items[p][2]],
      size |-> w] :
        items \in UNION {[1..n -> RunItems] : n \in 1..MaxPairPrompts},
        w \in 1..MaxPairPrompts}

\* the two runs have the same request, with the same LLM result, at position p
AgreeAt(first, second, p) ==
    /\ p \in DOMAIN first.request_prompts
    /\ p \in DOMAIN second.request_prompts
    /\ first.request_prompts[p] = second.request_prompts[p]
    /\ first.behaviours[p] = second.behaviours[p]

\* two runs that agree at one position at least are about to be made
InitRuns ==
    /\ prompts = <<>>
    /\ llm_behaviour = <<>>
    /\ prev_responses = <<>>
    /\ batch_size = 1
    /\ pc = "idle"
    /\ offset = 0
    /\ all_responses = <<>>
    /\ completed = 0
    /\ failed = 0
    /\ first_result_time = NoneV
    /\ prepared_requests = <<>>
    /\ llm_tasks = <<>>
    /\ finish_order = <<>>
    /\ overtaken = FALSE
    /\ llm_calls = <<>>
    /\ batches = <<>>
    /\ now = 0
    /\ first_success_completion = NoneV
    /\ next_completion = NoneV
    /\ error_events = <<>>
    /\ fn = "none"
    /\ fn_result = NoneV
    /\ \E first \in RunInputs : \E second \in RunInputs :
           /\ \E p \in 1..MaxPairPrompts : AgreeAt(first, second, p)
           /\ fn_args = [first |-> first, second |-> second]

\* both runs are made
CallProcessMultiplePrompts ==
    /\ fn = "none"
    /\ fn' = "process_multiple_prompts"
    /\ fn_result' =
           [first |-> process_multiple_prompts(
                          fn_args.first.request_prompts,
                          fn_args.first.behaviours, fn_args.first.size, 0),
            second |-> process_multiple_prompts(
                           fn_args.second.request_prompts,
                           fn_args.second.behaviours, fn_args.second.size, 0)]
    /\ UNCHANGED <<fn_args, run_vars>>

NextRuns == CallProcessMultiplePrompts

SpecRuns == InitRuns /\ [][NextRuns]_vars

----------------------------------------------------------------------------
(* What a run is checked against *)

\* the Outcome of the request at input position p, processed alone with the
\* result its own LLM call gives
ItemOutcome(p) ==
    LET prepared == prepare_requests(<<prompts[p]>>)
        tasks == create_tasks(prepared, p - 1)
        result == IF tasks[1] = NoneV THEN NoneV
                  ELSE process_with_llm(llm_behaviour[p], p,
                                        tasks[1].response_model)
    IN process_response(prepared[1], tasks[1], <<result>>).val

Returned == pc = "done"

\* C1: the list a run returns has, at every position i, the Outcome of the
\* i-th input request built from that request's own LLM result, whatever the
\* batch size and the order in which the calls of a batch finished.
C1_OrderPreserved ==
    Returned =>
        /\ Len(all_responses) = total_prompts
        /\ \A p \in 1..total_prompts : all_responses[p] = ItemOutcome(p)

\* a run of MaxPrompts requests in one batch has returned after a later call
\* finished before an earlier one
C1_Witness ==
    /\ Returned
    /\ overtaken
    /\ total_prompts = MaxPrompts
    /\ batch_size = MaxPrompts
    /\ \A p \in 1..total_prompts : all_responses[p].status = "success"

\* how the item at input position p fails, if it does
PrepFails(p) == prepare_prompt_request(prompts[p]).raised

LLMFails(p) == ~PrepFails(p) /\ llm_behaviour[p] \in LLMFailures

ExtractionFails(p) ==
    /\ ~PrepFails(p)
    /\ ~LLMFails(p)
    /\ Truthy(prompts[p].extract_field_path)
    /\ ~prepare_prompt_request(prompts[p]).val.has_schema

ItemFails(p) == PrepFails(p) \/ LLMFails(p) \/ ExtractionFails(p)

\* no schema and no extraction path
PlainRequest(r) ==
    r.response_format = NoneV /\ r.extract_field_path = NoneV

\* C2: when every request is plain (no schema, no extraction path) and the
\* LLM call raises for exactly the positions in F, the returned list has N
\* entries, status "error" at exactly the positions in F and "success" at
\* every other position.
C2_PartialFailureIsolated ==
    (Returned /\ \A p \in 1..total_prompts : PlainRequest(prompts[p])) =>
        /\ Len(all_responses) = total_prompts
        /\ \A p \in 1..total_prompts :
               all_responses[p].status =
                   IF llm_behaviour[p] \in LLMFailures THEN "error" ELSE "success"

\* three plain requests in batches of two, the first and the last failing:
\* the failures lie in two different batches
C2_Witness ==
    /\ Returned
    /\ total_prompts = 3
    /\ batch_size = 2
    /\ \A p \in 1..total_prompts : PlainRequest(prompts[p])
    /\ llm_behaviour = <<"raise", "return", "raise">>
    /\ all_responses[1].status = "error"
    /\ all_responses[2].status = "success"
    /\ all_responses[3].status = "error"

\* C3: the returned list has exactly one Outcome per input item, whatever
\* mix of preparation, LLM-call and extraction failures occurred; after
\* every batch, one Outcome per item of the batches processed so far.
C3_OneOutcomePerItem ==
    /\ Returned => Len(all_responses) = total_prompts
    /\ pc = "batch_loop" => Len(all_responses) = Min(offset, total_prompts)

\* a returned run with a failed preparation, a failed LLM call and a failed
\* extraction among its items
C3_Witness ==
    /\ Returned
    /\ Len(all_responses) = total_prompts
    /\ \E p \in 1..total_prompts : PrepFails(p)
    /\ \E p \in 1..total_prompts : LLMFails(p)
    /\ \E p \in 1..total_prompts : ExtractionFails(p)

\* the Outcome of the item at position p had its LLM call returned a value
\* that PromptResponse.response cannot hold
OutcomeOfUnserializable(p) ==
    LET prepared == prepare_requests(<<prompts[p]>>)
        tasks == create_tasks(prepared, p - 1)
    IN process_response(prepared[1], tasks[1], <<Ok([t |-> "object"])>>)

\* C4: no per-item failure escapes process_multiple_prompts: the run never
\* ends by raising, process_batch returns normally for every batch whose
\* calls have all finished, a returned run holds an Outcome for every item,
\* an error Outcome for every failed one, and a failure of response
\* preparation is turned into an error Outcome as well.
C4_FailuresNeverPropagate ==
    /\ pc # "raised"
    /\ (pc = "gathering" /\ GatherDone(llm_tasks)) =>
           ~process_batch_result(prepared_requests, llm_tasks, finish_order,
                                 completed, first_result_time, now).raised
    /\ Returned =>
           /\ Len(all_responses) = total_prompts
           /\ \A p \in 1..total_prompts :
                  /\ ItemFails(p) => all_responses[p].status = "error"
                  /\ ~OutcomeOfUnserializable(p).raised
                  /\ OutcomeOfUnserializable(p).val.status = "error"

\* batches of one: the items of the first two batches fail, one of them in
\* the LLM call, and the run still returns with the last item's success
C4_Witness ==
    /\ Returned
    /\ total_prompts = 3
    /\ batch_size = 1
    /\ ItemFails(1) /\ ItemFails(2) /\ ~ItemFails(3)
    /\ LLMFails(1) \/ LLMFails(2)
    /\ all_responses[1].status = "error"
    /\ all_responses[2].status = "error"
    /\ all_responses[3].status = "success"

\* C5: the same request list, with the same LLM result per item, run again
\* with another batch size returns the same list of Outcomes.
C5_BatchSizeTransparent ==
    (Returned /\ prev_responses # <<>>) => all_responses = prev_responses

\* a second run with a larger batch size has returned a list with a success
\* and an error in it
C5_Witness ==
    /\ Returned
    /\ prev_responses # <<>>
    /\ total_prompts = MaxPrompts
    /\ Len(batches) = 1
    /\ \E p \in 1..total_prompts : all_responses[p].status = "error"
    /\ \E p \in 1..total_prompts : all_responses[p].status = "success"

\* the invariant of an Outcome
OutcomeWellFormed(o) ==
    /\ (o.error # NoneV) <=> (o.status = "error")
    /\ o.status = "error" => o.response = NoneV

\* raw LLM outputs and extraction paths prepare_prompt_response is tried on
ProbeValues(p) ==
    {Str(ResponseText(p)),
     NoneV,
     ModelInstance([output |-> Str(ResponseText(p))]),
     Dict([output |-> Dict([city |-> Str(ResponseText(p))])])}

ProbePaths ==
    {NoneV, Path(<<>>), Path(<<"output">>), Path(<<"missing">>),
     Path(<<"output", ".", "city">>), Path(<<"output", ".", ".", "city">>)}

\* C6: every Outcome of the pipeline -- accumulated by the batch run,
\* returned by the single-prompt route, or returned by
\* prepare_prompt_response -- has a non-null error exactly when its status
\* is "error", and a null response when its status is "error".
C6_OutcomeInvariant ==
    /\ \A p \in DOMAIN all_responses : OutcomeWellFormed(all_responses[p])
    /\ Returned =>
         \A p \in 1..total_prompts :
           /\ LET r == process_single_prompt_route(
                           prompts[p], llm_behaviour[p], p)
              IN ~r.raised /\ OutcomeWellFormed(r.val)
           /\ \A v \in ProbeValues(p) : \A path \in ProbePaths :
              \A has_schema \in BOOLEAN :
                LET r == prepare_prompt_response(v, path, has_schema)
                IN ~r.raised /\ OutcomeWellFormed(r.val)

\* a returned run holding an extraction failure, an LLM failure and a success
C6_Witness ==
    /\ Returned
    /\ \E p \in 1..total_prompts :
           /\ ExtractionFails(p)
           /\ all_responses[p].status = "error"
           /\ all_responses[p].error # NoneV
           /\ all_responses[p].response = NoneV
    /\ \E p \in 1..total_prompts :
           LLMFails(p) /\ all_responses[p].error # NoneV
    /\ \E p \in 1..total_prompts :
           /\ all_responses[p].status = "success"
           /\ all_responses[p].error = NoneV
           /\ all_responses[p].response # NoneV

\* the batch positions whose LLM call is in flight
InFlight ==
    {i \in DOMAIN llm_tasks :
        llm_tasks[i] # NoneV /\ llm_tasks[i].state = "pending"}

\* C7: while process_batch awaits the calls of a batch, a call exists for
\* exactly the successfully prepared items and every one of them has been
\* started: none is still waiting for another call to finish.
C7_FireAllThenAwait ==
    pc = "gathering" =>
        \A i \in 1..Len(prepared_requests) :
            /\ (llm_tasks[i] # NoneV) <=> (prepared_requests[i].prompt # NoneV)
            /\ llm_tasks[i] # NoneV =>
                   llm_tasks[i].state \in {"pending", "done"}

\* a batch of MaxPrompts items, one of them not prepared: the calls of all
\* the others are in flight and none has finished
C7_Witness ==
    /\ pc = "gathering"
    /\ finish_order = <<>>
    /\ Len(llm_tasks) = MaxPrompts
    /\ Cardinality(InFlight) = MaxPrompts - 1
    /\ \E i \in 1..Len(llm_tasks) : llm_tasks[i] = NoneV

\* C8: batches run strictly one after another: the call of an item is
\* issued only once the Outcomes of all earlier batches are in the global
\* list, the calls awaited at any time all belong to the one current batch,
\* and no call exists outside the await of its batch.
C8_BatchesSequential ==
    /\ \A p \in DOMAIN llm_calls :
           llm_calls[p] > 0 =>
               Len(all_responses) >= ((p - 1) \div batch_size) * batch_size
    /\ pc = "gathering" =>
           /\ Len(all_responses) = offset
           /\ \A i \in DOMAIN llm_tasks :
                  llm_tasks[i] # NoneV =>
                      (llm_tasks[i].pos - 1) \div batch_size
                          = offset \div batch_size
    /\ pc # "gathering" => llm_tasks = <<>>

\* a call of a later batch is in flight, the Outcomes of the earlier
\* batches appended
C8_Witness ==
    /\ pc = "gathering"
    /\ offset > 0
    /\ InFlight # {}
    /\ Len(all_responses) = offset

\* C9: the LLM caller is invoked at most once per item, never for an item
\* whose preparation failed, and in a returned run exactly once for every
\* prepared item, a failed call included.
C9_OneCallPerPreparedItem ==
    /\ \A p \in DOMAIN llm_calls :
           /\ llm_calls[p] <= 1
           /\ PrepFails(p) => llm_calls[p] = 0
    /\ Returned =>
           \A p \in DOMAIN llm_calls :
               llm_calls[p] = IF PrepFails(p) THEN 0 ELSE 1

\* a returned run with an unprepared item, never called, and a failed call,
\* made once
C9_Witness ==
    /\ Returned
    /\ \E p \in 1..total_prompts : PrepFails(p) /\ llm_calls[p] = 0
    /\ \E p \in 1..total_prompts : LLMFails(p) /\ llm_calls[p] = 1

\* ceil(n / w)
CeilDiv(n, w) == CHOOSE c \in 0..n : c * w >= n /\ (c - 1) * w < n

\* C10: the batches are the consecutive slices of at most batch_size items,
\* only the last one shorter, ceil(N / batch_size) of them in a returned
\* run, and never more than batch_size calls are in flight.
C10_WindowPartition ==
    /\ \A k \in DOMAIN batches :
           /\ batches[k][1] = (k - 1) * batch_size
           /\ batches[k][2] >= 1
           /\ batches[k][2] <= batch_size
           /\ batches[k][2] < batch_size =>
                  batches[k][1] + batches[k][2] = total_prompts
    /\ Returned => Len(batches) = CeilDiv(total_prompts, batch_size)
    /\ Len(llm_tasks) <= batch_size
    /\ Cardinality(InFlight) <= batch_size

\* a returned run that took two batches, the last one shorter
C10_Witness ==
    /\ Returned
    /\ total_prompts = 3
    /\ batch_size = 2
    /\ batches = <<<<0, 2>>, <<2, 1>>>>

\* C11: the first-success timestamp is set exactly while the global count of
\* successes is at least one; it becomes set in the step that takes the count
\* from 0 to at least 1, with the clock reading of the first successful item
\* of that batch, and a later success of the same or of a later batch of the
\* run never changes it.
C11_FirstSuccessSetOnce ==
    [][/\ (first_result_time' = NoneV) <=> (completed' = 0)
       /\ (first_result_time # NoneV /\ pc # "done") =>
              first_result_time' = first_result_time
       /\ (first_result_time = NoneV /\ first_result_time' # NoneV) =>
              /\ completed = 0
              /\ completed' >= 1
              /\ \E k \in 1..Len(prepared_requests) :
                     /\ all_responses'[offset + k].status = "success"
                     /\ \A q \in 1..(offset + k - 1) :
                            all_responses'[q].status = "error"
                     /\ first_result_time' = Time(now + k)]_vars

\* a returned run of two batches, two successes in the first and one more in
\* the second, the timestamp set
C11_Witness ==
    /\ Returned
    /\ total_prompts = 3
    /\ batch_size = 2
    /\ completed = 3
    /\ first_result_time # NoneV

\* C12: the first-success timestamp of a returned run is the completion time
\* of the call that finished first among the items that reached success: it
\* is taken when that call finishes, before any other call of the run
\* finishes after it, also when a later-positioned item finishes first.
C12_FirstSuccessByCompletionOrder ==
    (Returned /\ first_result_time # NoneV) =>
        /\ first_success_completion # NoneV
        /\ first_result_time.v >= first_success_completion.v
        /\ next_completion # NoneV =>
               first_result_time.v < next_completion.v

\* C13: the single-prompt route is the one-item case of the batch pipeline:
\* a run on the one-request list [r] returns, as its only entry, the Outcome
\* (status, response, error text) that process_single_prompt_route returns
\* for r under the same LLM behaviour.
C13_RouteIsOneItemBatch ==
    (Returned /\ total_prompts = 1) =>
        LET r == process_single_prompt_route(prompts[1], llm_behaviour[1], 1)
        IN ~r.raised /\ all_responses = <<r.val>>

\* the Outcome of the item at position p had its LLM call raised an exception
\* of class cls with message msg
OutcomeOfRaise(p, cls, msg) ==
    LET prepared == prepare_requests(<<prompts[p]>>)
        tasks == create_tasks(prepared, p - 1)
    IN process_response(prepared[1], tasks[1], <<Raise(cls, msg)>>)

\* an error Outcome whose error text is msg
ErrorOutcome(msg) == [status |-> "error", response |-> NoneV, error |-> Str(msg)]

TypeOf(rf) == IF "type" \in DOMAIN rf THEN rf.type ELSE ""

\* C15: prepare_prompt_request builds a response model or reports
\* has_schema only for a response_format whose type is "json_schema"; for an
\* absent response_format or any other type it returns no response model and
\* has_schema false, and the LLM call is created without a response model.
C15_StructuredOnlyForJsonSchema ==
    fn = "prepare_prompt_request" =>
        LET request == fn_args.prompt_request
            rf == request.response_format
        IN /\ (~fn_result.raised /\ (fn_result.val.has_schema
                                       \/ fn_result.val.response_model # NoneV))
                  => TypeOf(rf) = "json_schema"
           /\ TypeOf(rf) # "json_schema" =>
                  /\ ~fn_result.raised
                  /\ fn_result.val.response_model = NoneV
                  /\ ~fn_result.val.has_schema
                  /\ create_tasks(prepare_requests(<<request>>), 0)[1]
                         .response_model = NoneV

\* prepare_prompt_request was called with a response_format of type "text"
\* that holds a schema, and returned plain-text mode
C15_Witness ==
    /\ fn = "prepare_prompt_request"
    /\ TypeOf(fn_args.prompt_request.response_format) = "text"
    /\ "json_schema" \in DOMAIN fn_args.prompt_request.response_format
    /\ ~fn_result.raised
    /\ ~fn_result.val.has_schema

\* C16 as stated: for every raw LLM output and every extraction path that is
\* supplied (not None), prepare_prompt_response with has_schema false returns
\* an error Outcome carrying "Field extraction requires a schema".
C16_SchemaRequiredForAnySuppliedPath ==
    (/\ fn = "prepare_prompt_response"
     /\ fn_args.field_path # NoneV
     /\ ~fn_args.has_schema) =>
        fn_result = Ok(ErrorOutcome("Field extraction requires a schema"))

\* C16, amended: validate_field_extraction_request with has_schema false
\* raises "Field extraction requires a schema" for every data and path, and
\* for every raw LLM output and every non-empty extraction path (valid,
\* malformed or naming a missing field) prepare_prompt_response with
\* has_schema false returns an error Outcome carrying that message, before
\* any path-format or field-lookup error.
C16_SchemaRequiredForNonEmptyPath ==
    /\ (fn = "validate_field_extraction_request" /\ ~fn_args.has_schema) =>
           fn_result = Raise("ValueError", "Field extraction requires a schema")
    /\ (/\ fn = "prepare_prompt_response"
        /\ Truthy(fn_args.field_path)
        /\ ~fn_args.has_schema) =>
           fn_result = Ok(ErrorOutcome("Field extraction requires a schema"))

\* prepare_prompt_response was called without a schema on a path with a
\* doubled separator and returned the schema error
C16_Witness ==
    /\ fn = "prepare_prompt_response"
    /\ ~fn_args.has_schema
    /\ fn_args.field_path = Path(<<"user", ".", ".", "address">>)
    /\ fn_args.data.t = "dict"
    /\ fn_result = Ok(ErrorOutcome("Field extraction requires a schema"))

\* a success Outcome whose response is value
SuccessOutcome(value) ==
    [status |-> "success", response |-> value, error |-> NoneV]

\* what extraction is handed: the dumped model, the mapping, or the wrapped
\* value
Container(data) ==
    IF data.t \in {"model", "dict"} THEN Dict(data.d)
    ELSE Dict([result |-> data])

\* C17: called with an extraction path, prepare_prompt_response never
\* raises: when the validation of the request or the extraction raises, it
\* returns an error Outcome whose error text is the message raised; when the
\* extraction succeeds, a success Outcome whose response is the extracted
\* value.
C17_ExtractionFailureIsAnOutcome ==
    (fn = "prepare_prompt_response" /\ Truthy(fn_args.field_path)) =>
        LET v == validate_field_extraction_request(
                     Container(fn_args.data), fn_args.field_path,
                     fn_args.has_schema)
            x == extract_field(Container(fn_args.data), fn_args.field_path)
        IN /\ ~fn_result.raised
           /\ v.raised => fn_result.val = ErrorOutcome(v.msg)
           /\ (~v.raised /\ x.raised) => fn_result.val = ErrorOutcome(x.msg)
           /\ (~v.raised /\ ~x.raised) => fn_result.val = SuccessOutcome(x.val)

\* prepare_prompt_response was called with a schema on a path whose second
\* segment is missing and returned the error Outcome naming the prefix
C17_Witness ==
    /\ fn = "prepare_prompt_response"
    /\ fn_args.has_schema
    /\ fn_args.field_path = Path(<<"user", ".", "missing">>)
    /\ fn_result = Ok(ErrorOutcome("Field not found: user.missing"))

\* C18: called without an extraction path (None or empty), with or without
\* a schema, prepare_prompt_response returns a success Outcome whose
\* response is the output as normalized: the dump of a model instance, a
\* mapping as it is, and a scalar or list as it is, not wrapped.
C18_NoPathPassThrough ==
    (fn = "prepare_prompt_response" /\ ~Truthy(fn_args.field_path)) =>
        fn_result = Ok(SuccessOutcome(
                           IF fn_args.data.t = "model"
                           THEN Dict(fn_args.data.d)
                           ELSE fn_args.data))

\* prepare_prompt_response was called with a schema and no path on a plain
\* text and returned the text itself
C18_Witness ==
    /\ fn = "prepare_prompt_response"
    /\ fn_args.field_path = NoneV
    /\ fn_args.has_schema
    /\ fn_args.data = Str("London")
    /\ fn_result = Ok(SuccessOutcome(Str("London")))

\* the value the extractor is to be handed: the normalized output itself
\* when it is a mapping or a sequence, {"result": value} otherwise
WrappedUnlessContainer(data) ==
    IF format_response_data(data).t \in {"dict", "list"}
    THEN format_response_data(data)
    ELSE Dict([result |-> format_response_data(data)])

\* C19: called with an extraction path, prepare_prompt_response returns the
\* Outcome of extracting from the normalized output itself when that is a
\* mapping or a sequence, and from {"result": value} exactly when it is
\* neither.
C19_WrapOnlyNonContainers ==
    (fn = "prepare_prompt_response" /\ Truthy(fn_args.field_path)) =>
        LET x == extract_requested_field(
                     WrappedUnlessContainer(fn_args.data),
                     fn_args.field_path, fn_args.has_schema)
        IN fn_result = IF x.raised THEN Ok(ErrorOutcome(x.msg))
                       ELSE Ok(SuccessOutcome(x.val))

\* the segments k1, ..., kn of a path whose atoms are non-empty pieces
\* separated by single dots; <<>> for any other path
Segments(path) ==
    IF /\ path # NoneV
       /\ Len(path.atoms) % 2 = 1
       /\ \A k \in DOMAIN path.atoms :
              IF k % 2 = 1 THEN path.atoms[k] \notin {".", ""}
              ELSE path.atoms[k] = "."
    THEN [k \in 1..((Len(path.atoms) + 1) \div 2) |-> path.atoms[2 * k - 1]]
    ELSE <<>>

RECURSIVE Resolves(_, _)
\* every key of keys is found, each in the mapping the one before it leads to
Resolves(d, keys) ==
    \/ keys = <<>>
    \/ /\ d.t = "dict"
       /\ Head(keys) \in DOMAIN d.d
       /\ Resolves(d.d[Head(keys)], Tail(keys))

RECURSIVE Lookup(_, _)
\* d[k1][k2]...[kn]
Lookup(d, keys) ==
    IF keys = <<>> THEN d ELSE Lookup(d.d[Head(keys)], Tail(keys))

\* C20: for a mapping d and a dot path k1.k2...kn of non-empty segments,
\* n >= 1, each intermediate value being a mapping that contains the next
\* key, extract_field(d, path) returns d[k1][k2]...[kn], whatever value that
\* is.
C20_ExtractFieldIsNestedLookup ==
    (/\ fn = "extract_field"
     /\ fn_args.data.t = "dict"
     /\ Segments(fn_args.field_path) # <<>>
     /\ Resolves(fn_args.data, Segments(fn_args.field_path))) =>
        fn_result = Ok(Lookup(fn_args.data, Segments(fn_args.field_path)))

\* extract_field was called on a nested mapping with the path "user.age"
\* and returned the 0 stored there
C20_Witness ==
    /\ fn = "extract_field"
    /\ fn_args.field_path = Path(<<"user", ".", "age">>)
    /\ fn_args.data.t = "dict"
    /\ fn_result = Ok(IntV(0))

RECURSIVE Unresolved(_, _)
\* how many segments of keys are read up to and including the first that is
\* absent or whose parent is not a mapping
Unresolved(d, keys) ==
    IF d.t = "dict" /\ Head(keys) \in DOMAIN d.d
    THEN 1 + Unresolved(d.d[Head(keys)], Tail(keys))
    ELSE 1

RECURSIVE Dotted(_)
\* the text k1.k2...kn of the segments keys
Dotted(keys) ==
    IF Len(keys) = 1 THEN keys[1]
    ELSE keys[1] \o "." \o Dotted(Tail(keys))

\* C21: when extract_field cannot resolve a well-formed path in a mapping
\* or list, it raises "Field not found: " followed by the prefix of the path
\* up to and including the first segment that is absent or whose parent is
\* not a mapping.
C21_FieldNotFoundNamesPrefix ==
    (/\ fn = "extract_field"
     /\ fn_args.data.t \in {"dict", "list"}
     /\ Segments(fn_args.field_path) # <<>>
     /\ ~Resolves(fn_args.data, Segments(fn_args.field_path))) =>
        LET keys == Segments(fn_args.field_path)
        IN fn_result =
               Raise("ValueError",
                     "Field not found: " \o
                         Dotted(SubSeq(keys, 1, Unresolved(fn_args.data, keys))))

\* extract_field was called with "user.address.city" on a mapping without
\* "user" and named the prefix "user"
C21_Witness ==
    /\ fn = "extract_field"
    /\ fn_args.data.t = "dict"
    /\ fn_args.field_path = Path(<<"user", ".", "address", ".", "city">>)
    /\ fn_result = Raise("ValueError", "Field not found: user")

\* the path is the empty string or has an empty segment: a leading, a
\* trailing or a doubled dot
Malformed(path) ==
    /\ path # NoneV
    /\ \/ path.atoms = <<>>
       \/ path.atoms[1] = "."
       \/ path.atoms[Len(path.atoms)] = "."
       \/ \E k \in 1..(Len(path.atoms) - 1) :
              path.atoms[k] = "." /\ path.atoms[k + 1] = "."

\* C22 as stated: extract_field called with an empty path or a path with an
\* empty segment raises "Invalid field path format", for every data value.
C22_MalformedPathForAnyData ==
    (fn = "extract_field" /\ Malformed(fn_args.field_path)) =>
        fn_result = Raise("ValueError", "Invalid field path format")

\* C22, amended: extract_field called with an empty path or a path with an
\* empty segment raises "Invalid field path format" for every mapping or
\* list, and for the empty path for every data value; for a non-empty such
\* path on any other data it raises the non-structured-data error; it never
\* returns a value or a "Field not found" error for such a path.
C22_MalformedPathForContainers ==
    (fn = "extract_field" /\ Malformed(fn_args.field_path)) =>
        fn_result =
            IF fn_args.data.t \in {"dict", "list"}
               \/ fn_args.field_path.atoms = <<>>
            THEN Raise("ValueError", "Invalid field path format")
            ELSE Raise("ValueError",
                       "Cannot extract fields from non-structured data type: "
                           \o "<class '" \o TypeName(fn_args.data) \o "'>")

\* extract_field was called on a mapping that holds "user" with the path
\* "user..address" and raised the malformed-path error
C22_Witness ==
    /\ fn = "extract_field"
    /\ fn_args.data.t = "dict"
    /\ "user" \in DOMAIN fn_args.data.d
    /\ fn_args.field_path = Path(<<"user", ".", ".", "address">>)
    /\ fn_result = Raise("ValueError", "Invalid field path format")

ExpectedField(property) ==
    LET type == IF "type" \in DOMAIN property THEN property.type ELSE ""
    IN IF type = "string" /\ "enum" \in DOMAIN property
       THEN [kind |-> "Literal", values |-> property.enum, required |-> TRUE]
       ELSE [kind |-> CASE type = "string" -> "str"
                        [] type = "integer" -> "int"
                        [] type = "number" -> "float"
                        [] type = "boolean" -> "bool"
                        [] type = "array" -> "List[Any]"
                        [] type = "object" -> "Dict[str, Any]"
                        [] OTHER -> "Any",
             required |-> TRUE]

\* the properties of a schema object, none when it has no such entry
PropertiesOf(schema_obj) ==
    IF "properties" \in DOMAIN schema_obj THEN schema_obj.properties ELSE <<>>

\* C24: create_dynamic_model_from_schema returns a model with exactly one
\* field per property of the schema, each required and of the kind its
\* declared type decides: string with enum -> Literal of the listed values,
\* string -> str, integer -> int, number -> float, boolean -> bool, array ->
\* List[Any], object -> Dict[str, Any], any other or no type -> Any; an
\* instance that lacks one of the fields is rejected.
C24_OneRequiredFieldPerProperty ==
    /\ fn = "create_dynamic_model_from_schema" =>
           /\ ~fn_result.raised
           /\ DOMAIN fn_result.val.model_fields
                  = DOMAIN PropertiesOf(fn_args.schema_obj)
           /\ \A f \in DOMAIN PropertiesOf(fn_args.schema_obj) :
                  fn_result.val.model_fields[f] =
                      ExpectedField(PropertiesOf(fn_args.schema_obj)[f])
    /\ (/\ fn = "model_validate"
        /\ \E f \in DOMAIN PropertiesOf(fn_args.schema_obj) :
               f \notin DOMAIN fn_args.instance) =>
           fn_result.raised

\* the model of a schema with a number and an enum property was built
C24_Witness ==
    /\ fn = "create_dynamic_model_from_schema"
    /\ ~fn_result.raised
    /\ DOMAIN fn_result.val.model_fields = {"status", "score"}
    /\ fn_result.val.model_fields.score = [kind |-> "float", required |-> TRUE]
    /\ fn_result.val.model_fields.status.kind = "Literal"

\* the text is one of the values the enum lists
Listed(enum, text) == \E k \in DOMAIN enum : enum[k] = text

\* the properties of type string that carry an enum list
EnumProperties(schema_obj) ==
    {f \in DOMAIN PropertiesOf(schema_obj) :
        /\ "type" \in DOMAIN PropertiesOf(schema_obj)[f]
        /\ PropertiesOf(schema_obj)[f].type = "string"
        /\ "enum" \in DOMAIN PropertiesOf(schema_obj)[f]}

SchemaWithoutProperties(rf) ==
    /\ TypeOf(rf) = "json_schema"
    /\ "json_schema" \in DOMAIN rf
    /\ "schema" \in DOMAIN rf.json_schema
    /\ "properties" \notin DOMAIN rf.json_schema.schema

\* C26: for a schema object without a "properties" entry
\* create_dynamic_model_from_schema does not raise and returns a model with
\* no fields; prepare_prompt_request succeeds on a request with such a
\* schema, and the LLM call of the item is created with that empty model.
C26_MissingPropertiesGivesEmptyModel ==
    /\ (/\ fn = "create_dynamic_model_from_schema"
        /\ "properties" \notin DOMAIN fn_args.schema_obj) =>
           fn_result = Ok([name |-> fn_args.schema_name, model_fields |-> <<>>])
    /\ (/\ fn = "prepare_prompt_request"
        /\ SchemaWithoutProperties(fn_args.prompt_request.response_format)) =>
           LET tasks == create_tasks(
                            prepare_requests(<<fn_args.prompt_request>>), 0)
           IN /\ ~fn_result.raised
              /\ fn_result.val.has_schema
              /\ fn_result.val.response_model # NoneV
              /\ fn_result.val.response_model.model_fields = <<>>
              /\ tasks[1] # NoneV
              /\ tasks[1].response_model = fn_result.val.response_model

\* prepare_prompt_request was called on a request whose schema has no
\* "properties" and returned a model without fields
C26_Witness ==
    /\ fn = "prepare_prompt_request"
    /\ SchemaWithoutProperties(fn_args.prompt_request.response_format)
    /\ ~fn_result.raised
    /\ fn_result.val.response_model.model_fields = <<>>

\* the call at batch position i is still in flight
StillPending(tasks, i) == tasks[i] # NoneV /\ tasks[i].state = "pending"

\* the call at batch position i ran to its own completion: it is done with
\* what process_with_llm returns or raises for its own request
OwnCompletion(tasks, i) ==
    /\ tasks[i].state = "done"
    /\ tasks[i].result = process_with_llm(llm_behaviour[tasks[i].pos],
                                          tasks[i].pos,
                                          tasks[i].response_model)

\* C27: a call that raises, a provider timeout included, leaves the other
\* calls of its batch alone: a call in flight stays in flight until it ends
\* with its own result, and process_batch goes past gather, and Outcomes
\* are added to all_responses, only when every call dispatched in the batch
\* has ended with its own result.
C27_SiblingsAwaitedToCompletion ==
    [][/\ (pc = "gathering" /\ pc' = "gathering") =>
              \A i \in DOMAIN llm_tasks :
                  StillPending(llm_tasks, i) =>
                      StillPending(llm_tasks', i) \/ OwnCompletion(llm_tasks', i)
       /\ (pc = "gathering"
              /\ (pc' # "gathering" \/ all_responses' # all_responses)) =>
              \A i \in DOMAIN llm_tasks :
                  llm_tasks[i] # NoneV => OwnCompletion(llm_tasks, i)]_vars

\* gather is about to return for a batch whose first call to end timed
\* out and whose next call to end returned
C27_Witness ==
    /\ pc = "gathering"
    /\ GatherDone(llm_tasks)
    /\ Len(finish_order) >= 2
    /\ llm_behaviour[llm_tasks[finish_order[1]].pos] = "timeout"
    /\ llm_tasks[finish_order[1]].result.raised
    /\ ~llm_tasks[finish_order[2]].result.raised

\* completed, failed, first_result_time and all_responses of the run
aggregate == <<completed, failed, first_result_time, all_responses>>

\* C28: from the dispatch of a batch's calls until the last of them has
\* ended, completed, failed, first_result_time and all_responses keep their
\* values; within a run they change only in the step that follows gather,
\* taken when every call of the batch is done.
C28_AggregateFrozenInFlight ==
    [][/\ (pc \in {"prepared", "gathering"} /\ pc' = "gathering") =>
              aggregate' = aggregate
       /\ (pc # "done" /\ aggregate' # aggregate) =>
              /\ pc = "gathering"
              /\ GatherDone(llm_tasks)
              /\ pc' = "batch_loop"]_vars

\* a call of the batch has returned what makes its item a success, another
\* is still pending, and nothing is counted, timed or accumulated yet
C28_Witness ==
    /\ pc = "gathering"
    /\ finish_order # <<>>
    /\ ~GatherDone(llm_tasks)
    /\ ItemSucceeds(prepared_requests[finish_order[1]],
                    llm_tasks[finish_order[1]],
                    llm_tasks[finish_order[1]].result)
    /\ completed = 0
    /\ failed = 0
    /\ first_result_time = NoneV
    /\ all_responses = <<>>

\* the number of accumulated Outcomes with the given status
OutcomesWith(status) ==
    Cardinality({p \in 1..Len(all_responses) :
                    all_responses[p].status = status})

\* the run stands between two batches, or has returned
AtBoundary == pc \in {"batch_loop", "done"}

\* C30: between two batches and when the run has returned, completed +
\* failed is the number of accumulated Outcomes, completed the number of
\* those with status "success" and failed the number with status "error";
\* no step of a run decreases completed or failed; and when the run has
\* returned completed + failed is the number of prompts.
C30_CountersMatchOutcomes ==
    /\ [](AtBoundary =>
             /\ completed + failed = Len(all_responses)
             /\ completed = OutcomesWith("success")
             /\ failed = OutcomesWith("error"))
    /\ [](pc = "done" => completed + failed = total_prompts)
    /\ [][pc # "done" =>
             completed' >= completed /\ failed' >= failed]_vars

\* a run of more than one batch has returned with successes and failures
C30_Witness ==
    /\ pc = "done"
    /\ Len(batches) >= 2
    /\ completed > 0
    /\ failed > 0
    /\ completed + failed = total_prompts

\* STARTED and WINDOW_DONE are pc = "batch_loop", WINDOW_ACTIVE is pc =
\* "prepared" then "gathering", COMPLETED is pc = "done": the steps between
RunSteps ==
    {<<"batch_loop", "prepared">>, <<"prepared", "gathering">>,
     <<"gathering", "batch_loop">>, <<"batch_loop", "done">>}

\* C29: when the coroutine is scheduled and every LLM call issued returns
\* or raises, the run reaches its return; pc moves only along batch_loop,
\* prepared, gathering, batch_loop, ..., done; every batch entered is the
\* one after the last entered; and the returned run has entered the
\* ceil(N / batch_size) batches in order, once each, with one LLM call at
\* most per request.
C29_RunCompletesWithoutRetry ==
    /\ <>(pc = "done")
    /\ [][/\ pc' # pc => <<pc, pc'>> \in RunSteps
          /\ pc' = "prepared" =>
                 /\ Len(batches') = Len(batches) + 1
                 /\ batches'[Len(batches')][1] = Len(batches) * batch_size]_vars
    /\ [](pc = "done" =>
             /\ Len(batches) = CeilDiv(total_prompts, batch_size)
             /\ \A k \in DOMAIN batches :
                    batches[k][1] = (k - 1) * batch_size
             /\ \A p \in 1..total_prompts : llm_calls[p] <= 1)

\* a run of three batches has returned, a call of its second batch having
\* raised, and that request was called once
C29_Witness ==
    /\ pc = "done"
    /\ Len(batches) = 3
    /\ LLMFails(2)
    /\ llm_calls[2] = 1
    /\ all_responses[2].status = "error"

\* the batch positions of the items whose preparation succeeded, in order
PreparedPositions(prepared) ==
    SelectSeq([i \in 1..Len(prepared) |-> i],
              LAMBDA i : prepared[i].prompt # NoneV)

\* C31: when gather has returned for a batch, the result of the j-th call
\* passed to gather is the result of the call made for the j-th prepared
\* item, and the reordering of lines 136-141 puts it at that item's batch
\* position; a position whose preparation failed holds no result and its
\* Outcome is the error "Failed to prepare request".
C31_ResultsFollowPreparedItems ==
    (pc = "gathering" /\ GatherDone(llm_tasks)) =>
        LET llm_responses == gather_results(llm_tasks, finish_order)
            ordered == order_responses(prepared_requests, llm_tasks,
                                       llm_responses)
            res == process_batch_result(prepared_requests, llm_tasks,
                       finish_order, completed, first_result_time, now)
            positions == PreparedPositions(prepared_requests)
        IN /\ Len(llm_responses) = Len(positions)
           /\ \A j \in 1..Len(positions) :
                  /\ ordered[positions[j]] = llm_responses[j]
                  /\ llm_responses[j] =
                         process_with_llm(
                             llm_behaviour[offset + positions[j]],
                             offset + positions[j],
                             prepared_requests[positions[j]].response_model)
           /\ ~res.raised
           /\ \A i \in 1..Len(prepared_requests) :
                  prepared_requests[i].prompt = NoneV =>
                      /\ ordered[i] = NoneV
                      /\ res.batch_responses[i] =
                             ErrorOutcome("Failed to prepare request")

\* gather has returned for a batch of three whose first item was skipped
\* and whose other two calls returned, the later one first
C31_Witness ==
    /\ pc = "gathering"
    /\ GatherDone(llm_tasks)
    /\ Len(prepared_requests) = 3
    /\ prepared_requests[1].prompt = NoneV
    /\ finish_order = <<3, 2>>
    /\ ~llm_tasks[2].result.raised
    /\ ~llm_tasks[3].result.raised

\* C32: of two runs that have the same request with the same LLM result at
\* position p, the responses returned hold the same Outcome at position p,
\* whatever the other requests of each run are, whether they succeed or
\* fail, and whatever the two batch sizes.
C32_OutcomeDependsOnOwnItemOnly ==
    (pc = "idle" /\ fn = "process_multiple_prompts") =>
        \A p \in 1..MaxPairPrompts :
            AgreeAt(fn_args.first, fn_args.second, p) =>
                /\ Len(fn_result.first) = Len(fn_args.first.request_prompts)
                /\ Len(fn_result.second) =
                       Len(fn_args.second.request_prompts)
                /\ fn_result.first[p] = fn_result.second[p]

\* two runs were made that agree on a successful second request; before
\* it, one run has a request whose call raises in the same batch, the
\* other a request whose preparation fails in a batch of its own
C32_Witness ==
    /\ pc = "idle"
    /\ fn = "process_multiple_prompts"
    /\ AgreeAt(fn_args.first, fn_args.second, 2)
    /\ fn_args.first.behaviours[1] = "raise"
    /\ fn_args.first.size = 2
    /\ fn_args.second.request_prompts[1] = Request("bad_schema", 1)
    /\ fn_args.second.size = 1
    /\ fn_result.first[1].status = "error"
    /\ fn_result.second[1].status = "error"
    /\ fn_result.first[2].status = "success"
    /\ fn_result.second[2].status = "success"

\* C33: between two batches and when the run has returned,
\* first_result_time is set exactly when completed >= 1, which is exactly
\* when an accumulated Outcome is a success: a run whose items all failed
\* returns with it unset, and a first success in a batch after the first
\* sets it in the reconciliation of that batch.
C33_TimestampIffSuccess ==
    AtBoundary =>
        /\ (first_result_time # NoneV) <=> (completed >= 1)
        /\ (first_result_time # NoneV) <=> (OutcomesWith("success") >= 1)
        /\ (pc = "done" /\ failed = total_prompts) => first_result_time = NoneV

\* the second batch of a run has been reconciled: the first batch held
\* two failures, the second the first success, and the timestamp is set
C33_Witness ==
    /\ pc = "batch_loop"
    /\ batch_size = 2
    /\ Len(all_responses) = 3
    /\ all_responses[1].status = "error"
    /\ all_responses[2].status = "error"
    /\ all_responses[3].status = "success"
    /\ completed = 1
    /\ first_result_time # NoneV

\* C34: in a returned run, an item whose preparation raised has the error
\* Outcome with the text "Failed to prepare request", which is not the
\* message of the exception raised; no LLM call was made for it; and at
\* every batch boundary failed counts every accumulated item that failed,
\* those whose preparation raised included.
C34_PreparationFailureOutcome ==
    /\ Returned =>
           \A p \in 1..total_prompts :
               PrepFails(p) =>
                   /\ all_responses[p] =
                          ErrorOutcome("Failed to prepare request")
                   /\ all_responses[p].error #
                          Str(prepare_prompt_request(prompts[p]).msg)
                   /\ llm_calls[p] = 0
    /\ AtBoundary =>
           failed = Cardinality({p \in 1..Len(all_responses) : ItemFails(p)})

\* a returned run of one batch whose first two preparations raised with
\* two different messages, the third item succeeding
C34_Witness ==
    /\ Returned
    /\ total_prompts = 3
    /\ batch_size = 3
    /\ PrepFails(1)
    /\ PrepFails(2)
    /\ prepare_prompt_request(prompts[1]).msg #
           prepare_prompt_request(prompts[2]).msg
    /\ all_responses[1] = all_responses[2]
    /\ all_responses[3].status = "success"
    /\ failed = 2

\* the path ""
EmptyPath == Path(<<>>)

\* C35: called with the path "", with or without a schema,
\* prepare_prompt_response returns what it returns for the path None on the
\* same output: a success Outcome whose response is the normalized output
\* whole, with no error text; and extract_requested_field hands back its
\* argument for the path "" without raising, also without a schema.
C35_EmptyPathAsAbsent ==
    (fn = "prepare_prompt_response" /\ fn_args.field_path = EmptyPath) =>
        /\ fn_result = prepare_prompt_response(fn_args.data, NoneV,
                                               fn_args.has_schema)
        /\ ~fn_result.raised
        /\ fn_result.val.status = "success"
        /\ fn_result.val.error = NoneV
        /\ fn_result.val.response = format_response_data(fn_args.data)
        /\ extract_requested_field(format_response_data(fn_args.data),
                                   EmptyPath, fn_args.has_schema) =
               Ok(format_response_data(fn_args.data))

\* prepare_prompt_response was called without a schema on a plain text with
\* the path "" and returned the text, where the path "output" gives the
\* schema error
C35_Witness ==
    /\ fn = "prepare_prompt_response"
    /\ fn_args.field_path = EmptyPath
    /\ ~fn_args.has_schema
    /\ fn_args.data = Str("London")
    /\ fn_result = Ok(SuccessOutcome(Str("London")))
    /\ prepare_prompt_response(fn_args.data, Path(<<"output">>), FALSE) =
           Ok(ErrorOutcome("Field extraction requires a schema"))

\* the response_format has the type "json_schema" and its json_schema entry
\* is missing, empty or without a "schema" key
SchemaTypeWithoutSchema(rf) ==
    /\ TypeOf(rf) = "json_schema"
    /\ \/ "json_schema" \notin DOMAIN rf
       \/ rf.json_schema = <<>>
       \/ "schema" \notin DOMAIN rf.json_schema

\* C36: for a response_format of type "json_schema" whose json_schema entry
\* is missing, empty or without a "schema" key, prepare_prompt_request
\* returns has_schema true and no response model, and the LLM call is
\* created without a model; with an extraction path on such a request,
\* neither validate_field_extraction_request with that has_schema, nor the
\* batch path, nor the single-prompt route gives "Field extraction requires
\* a schema".
C36_SchemaTypeAloneCountsAsSchema ==
    (/\ fn = "prepare_prompt_request"
     /\ SchemaTypeWithoutSchema(fn_args.prompt_request.response_format)) =>
        LET request == fn_args.prompt_request
            tasks == create_tasks(prepare_requests(<<request>>), 0)
            output == process_with_llm("return", 1, NoneV).val
        IN /\ ~fn_result.raised
           /\ fn_result.val.has_schema
           /\ fn_result.val.response_model = NoneV
           /\ tasks[1] # NoneV
           /\ tasks[1].response_model = NoneV
           /\ Truthy(request.extract_field_path) =>
                  /\ ~validate_field_extraction_request(
                          Dict([result |-> output]),
                          request.extract_field_path,
                          fn_result.val.has_schema).raised
                  /\ process_multiple_prompts(
                         <<request>>, <<"return">>, 1, 0)[1].error #
                         Str("Field extraction requires a schema")
                  /\ process_single_prompt_route(
                         request, "return", 1).val.error #
                         Str("Field extraction requires a schema")

\* prepare_prompt_request was called on a request with an extraction path
\* and an empty json_schema entry; the item ends in the error of the
\* lookup, not in the schema error
C36_Witness ==
    /\ fn = "prepare_prompt_request"
    /\ fn_args.prompt_request.response_format =
           [type |-> "json_schema", json_schema |-> <<>>]
    /\ fn_args.prompt_request.extract_field_path = Path(<<"output">>)
    /\ fn_result.val.has_schema
    /\ fn_result.val.response_model = NoneV
    /\ process_multiple_prompts(
           <<fn_args.prompt_request>>, <<"return">>, 1, 0)[1] =
           ErrorOutcome("Field not found: output")

\* the kinds of value PromptResponse takes by converting them
ConvertedTypes == {"tuple"}

\* process_batch was called on one item whose call returned a value that is
\* neither of the kinds of JsonTypes nor a model instance
OtherKindReturned ==
    /\ fn = "process_batch"
    /\ fn_args.response_data.t \notin JsonTypes \cup {"model"}

EventsOf(p) == {e \in DOMAIN error_events : error_events[e].item = p}

\* C38: when a run has returned, every item whose Outcome has status
\* "error" has exactly one per-item error event, of category validation or
\* processing, whether its preparation, its LLM call or its field
\* extraction failed, and a successful item has none.
C38_OneErrorEventPerFailedItem ==
    Returned =>
        \A p \in 1..total_prompts :
            /\ all_responses[p].status = "error" =>
                   /\ Cardinality(EventsOf(p)) = 1
                   /\ \A e \in EventsOf(p) :
                          error_events[e].error_type
                              \in {"validation", "processing"}
            /\ all_responses[p].status = "success" => EventsOf(p) = {}

\* the same for the items whose preparation or LLM call failed, and for the
\* successful ones: one event for a failed item, validation for a failed
\* preparation and processing for a failed call, none for a success
OneErrorEventPerRaisedFailure ==
    Returned =>
        \A p \in 1..total_prompts :
            /\ PrepFails(p) =>
                   /\ Cardinality(EventsOf(p)) = 1
                   /\ \A e \in EventsOf(p) :
                          error_events[e].error_type = "validation"
            /\ LLMFails(p) =>
                   /\ Cardinality(EventsOf(p)) = 1
                   /\ \A e \in EventsOf(p) :
                          error_events[e].error_type = "processing"
            /\ all_responses[p].status = "success" => EventsOf(p) = {}

\* an item whose field extraction failed has an error Outcome and no event
ExtractionFailureWithoutEvent ==
    Returned =>
        \A p \in 1..total_prompts :
            ExtractionFails(p) =>
                all_responses[p].status = "error" /\ EventsOf(p) = {}

\* a call of extract_field or of validate_field_extraction_request is made
ExtractionCall ==
    /\ fn = "none"
    /\ fn' \in {"extract_field", "validate_field_extraction_request"}

\* the function called in this step, applied to the arguments as the step
\* leaves them
CalledAgain ==
    IF fn' = "extract_field"
    THEN extract_field(fn_args'.data, fn_args'.field_path)
    ELSE validate_field_extraction_request(
             fn_args'.data, fn_args'.field_path, fn_args'.has_schema)

ExtractionCallRaised ==
    /\ fn \in {"extract_field", "validate_field_extraction_request"}
    /\ fn_result.raised
    /\ fn_args.data.t = "dict"

====
